---- MODULE Spec2Model ----
(***************************************************************************)
(* AI-assisted service search of scView (ServiceCatalogue).                *)
(*                                                                         *)
(* The job store is the caller's Django session: a dictionary from         *)
(* 'ai_search_<request_id>' to a job entry, kept in the session backend.   *)
(* Every request works on its own SessionStore object, which loads the     *)
(* whole dictionary once and whose save() writes the whole dictionary      *)
(* back.  The background thread of a job keeps the SessionStore of the     *)
(* request that launched it (views.py:1181-1222 closes over `request`).    *)
(*                                                                         *)
(* Assumptions of the model: one caller session, logged in or anonymous    *)
(* for the whole run; a request handler runs atomically (load, change,     *)
(* save); a thread runs atomically from one LLM call to the next; the      *)
(* session backend accepts every save; the audit table may reject a save   *)
(* (database error); settings and catalogue do not change during a run.    *)
(*                                                                         *)
(* The diagnostic command test_ai_search is a process of its own; the web  *)
(* application's steps leave its state alone, and its run leaves theirs.   *)
(***************************************************************************)
EXTENDS Integers, Sequences, FiniteSets, TLC

\* Number of jobs the caller launches in the modelled session.
MaxJobs == 2

JobIds == 1..MaxJobs

VARIABLES
    aiEnabled,   \* AISearchService.is_enabled(): settings, fixed per run
    settings,    \* django.conf.settings: login and field-visibility flags
    authenticated, \* request.user.is_authenticated of the caller
    catalogue,   \* the listed revisions of the service the LLM shortlists
    prose,       \* the free text the LLM writes into its replies in this run
    messages,    \* messages[j]: the message lists job j posted to the LLM
    store,       \* session backend: job id -> entry (domain = stored keys)
    cache,       \* cache[j]: the SessionStore dictionary held by job j's thread
    pc,          \* pc[j]: position of job j's background thread
    audit,       \* audit[j]: AISearchLog rows saved by job j's perform_search
    llmCalls,    \* llmCalls[j]: requests job j sent to the LLM endpoint
    launched,    \* number of request ids generated so far (uuid4 is fresh)
    quota,       \* number of launches the caller makes in this run
    response,    \* the last HTTP response returned to the caller
    command,     \* the run of the diagnostic command test_ai_search
    extraction   \* an LLM reply text on its way through the response extractor

\* What is fixed for a run.
environment == <<aiEnabled, settings, authenticated, catalogue, prose>>

vars == <<environment, messages, store, cache, pc, audit, llmCalls, launched, quota,
          response, command, extraction>>

----------------------------------------------------------------------------
(* Text: a string is a sequence of characters.                             *)

\* str.strip() removes whitespace: blanks and line ends.
IsSpace(c) == c \in {" ", "\n"}

RECURSIVE LStrip(_)
LStrip(s) == IF s # <<>> /\ IsSpace(Head(s)) THEN LStrip(Tail(s)) ELSE s

RECURSIVE RStrip(_)
RStrip(s) ==
    IF s # <<>> /\ IsSpace(s[Len(s)]) THEN RStrip(SubSeq(s, 1, Len(s) - 1)) ELSE s

\* Mutant of Strip: the input is taken as posted.
NoStrip(s) == s

\* str.strip()
Strip(s) == RStrip(LStrip(s))

\* The user inputs the caller may post.
Inputs == { <<>>, <<" ">>, <<"a">>, <<" ", "a", " ">> }

\* Request bodies: not JSON, a JSON object without 'user_input', or one with it.
Bodies == { <<"invalid">>, <<"json">> } \cup { <<"json", s>> : s \in Inputs }

----------------------------------------------------------------------------
(* Dictionaries.                                                           *)

EmptyDict == [k \in {} |-> 0]

\* d[k] = v
DictSet(d, k, v) == [x \in DOMAIN d \cup {k} |-> IF x = k THEN v ELSE d[x]]

\* del d[k]
DictDel(d, k) == [x \in DOMAIN d \ {k} |-> d[x]]

\* d.get(k, default)
Get(d, k, default) == IF k \in DOMAIN d THEN d[k] ELSE default

\* None and a value that is not None.
None == << >>
Some(v) == << v >>

RECURSIVE Flatten(_)
Flatten(seqs) == IF seqs = << >> THEN << >> ELSE Head(seqs) \o Flatten(Tail(seqs))

----------------------------------------------------------------------------
(* Settings and catalogue.                                                 *)

\* ServiceRevision with its service and category (models.py:93-360), by the
\* way _get_service_details treats the fields (ai_service.py:287-333).
CoreFields == { "key", "name", "category", "purpose", "description", "version" }
PublicIfSetFields == { "listed_from", "listed_until", "contact", "url" }
OptionalFields ==
    { "requirements", "usage_information", "details", "options", "service_level" }
InternalFields ==
    { "description_internal", "keywords", "responsible", "submitted",
      "available_from", "available_until", "eol", "search_keys" }
RevisionFields == CoreFields \cup PublicIfSetFields \cup OptionalFields \cup InternalFields

\* The service the catalogue lists and the keys of its revisions.
ServiceKey == "CAT-SRV"
RevisionKeys == << "CAT-SRV-2", "CAT-SRV-1" >>

\* A revision whose fields in `filled` hold text and whose other fields are
\* empty.  The text of a field is written as the field's name, so a value
\* read in a prompt tells the field it was taken from.
Revision(key, filled) ==
    [f \in RevisionFields |->
        IF f = "key" THEN key ELSE IF f \in filled THEN f ELSE ""]

\* django.conf.settings, as far as the AI search reads it.
Settings(ai_login, catalogue_login, fields) ==
    [AI_SEARCH_REQUIRE_LOGIN         |-> ai_login,
     SERVICE_CATALOGUE_REQUIRE_LOGIN |-> catalogue_login,
     SERVICECATALOGUE_FIELD          |-> [f \in OptionalFields |-> f \in fields]]

\* views.py:265-268
require_login ==
    settings.AI_SEARCH_REQUIRE_LOGIN \/ settings.SERVICE_CATALOGUE_REQUIRE_LOGIN

\* Mutant of service_detail: the visibility settings are not consulted.
service_detail_unfiltered(revision) ==
    LET shown == CoreFields
                 \cup { f \in PublicIfSetFields : revision[f] # "" }
                 \cup { f \in OptionalFields : revision[f] # "" }
    IN  [f \in shown |-> revision[f]]

\* ai_service.py:287-333: the fields of one revision that leave the system.
service_detail(revision) ==
    LET shown == CoreFields
                 \cup { f \in PublicIfSetFields : revision[f] # "" }
                 \cup { f \in OptionalFields :
                           settings.SERVICECATALOGUE_FIELD[f] /\ revision[f] # "" }
    IN  [f \in shown |-> revision[f]]

\* ai_service.py:214-344: the details of every listed revision of the
\* requested services, in the order of the query (latest version first).
_get_service_details(service_keys) ==
    IF \E i \in 1..Len(service_keys) : service_keys[i] = ServiceKey
    THEN [i \in 1..Len(catalogue) |-> service_detail(catalogue[i])]
    ELSE << >>

\* The order in which _format_services_details prints the fields it prints.
FormatOrder ==
    << "name", "key", "category", "version", "listed_from", "listed_until",
       "purpose", "description", "requirements", "usage_information", "details",
       "options", "contact", "url" >>

\* ai_service.py:370-402: the text of the details, as lines <<field, value>>.
_format_services_details(services_details) ==
    Flatten([i \in 1..Len(services_details) |->
                LET details == services_details[i]
                    printed == SelectSeq(FormatOrder, LAMBDA f : f \in DOMAIN details)
                IN  [n \in 1..Len(printed) |-> << printed[n], details[printed[n]] >>]])

\* ai_service.py:110-212 and 346-368: the categories and services lists of
\* the step-1 prompt (category name; service key, name and purpose).
Step1Lists ==
    IF catalogue = << >> THEN << >>
    ELSE << << "category", catalogue[1]["category"] >>,
            << "key", ServiceKey >>,
            << "name", catalogue[1]["name"] >>,
            << "purpose", catalogue[1]["purpose"] >> >>

----------------------------------------------------------------------------
(* Job entries and responses.                                              *)

\* Mutant of InitialEntry: the entry is created as already running.
InitialEntryRunning(user_input) ==
    [status |-> "step1", user_input |-> user_input,
     progress |-> "Starting AI search..."]

\* views.py:1170-1174
InitialEntry(user_input) ==
    [status |-> "initiated", user_input |-> user_input,
     progress |-> "Starting AI search..."]

JsonResponse(op, code, id, body) == [op |-> op, code |-> code, id |-> id, body |-> body]

NoResponse == JsonResponse("none", 0, 0, <<>>)

\* request.session.save(): the whole dictionary of this SessionStore replaces
\* the session's stored dictionary.
SessionSave(dict) == dict

----------------------------------------------------------------------------
(* perform_search (ai_service.py:452-665).                                 *)

\* What a step can end with.  "timeout": requests.exceptions.Timeout;
\* "request": any other RequestException (connection failure, or the HTTP
\* status error of raise_for_status); "catalogue": a catalogue query raised
\* before the LLM was called; "empty": nothing is left of the step-1 reply
\* after extraction; "malformed": the reply is not JSON;
\* "none"/"cands": a JSON reply with an empty / a filled services_to_check;
\* "missing": a JSON reply without services_to_check;
\* "ok": a step-2 reply that recommends a listed revision; "unlisted": one
\* that also names keys the detail fetch did not return;
\* "keyless_also" / "keyless_recommended": one with an entry without
\* service_key in also_checked / in recommended_services.
Step1Outcomes ==
    { "timeout", "request", "catalogue", "empty", "malformed", "none", "missing",
      "cands" }
Step2Outcomes ==
    { "timeout", "request", "malformed", "ok", "unlisted", "keyless_also",
      "keyless_recommended" }

\* Was the step-2 reply parsed (ai_service.py:609 passed)?
Step2Parsed(outcome) ==
    outcome \in {"ok", "unlisted", "keyless_also", "keyless_recommended"}

DbError == "database error"

\* Mutant of ErrorMessage: the error of an unparsable reply quotes the reply.
ErrorMessageQuoting(step, outcome) ==
    CASE outcome = "timeout"   -> "AI API request timed out"
      [] outcome = "request"   -> "request failed"
      [] outcome = "catalogue" -> DbError
      [] outcome = "empty"     -> "AI returned an empty response"
      [] outcome = "malformed" -> prose
      [] outcome = "keyless_recommended" -> "'service_key'"

\* str(e) of the exception a step ended with.
ErrorMessage(step, outcome) ==
    CASE outcome = "timeout"   -> "AI API request timed out"
      [] outcome = "request"   -> "request failed"
      [] outcome = "catalogue" -> DbError
      [] outcome = "empty"     -> "AI returned an empty response"
      [] outcome = "malformed" ->
            IF step = 1
            THEN "AI response was not valid JSON. The AI may need to be instructed to return JSON format."
            ELSE "AI response was not valid JSON"
      [] outcome = "keyless_recommended" -> "'service_key'"

\* Does the step call the LLM endpoint (requests.post) before it ends?
CallsLLM(outcome) == outcome # "catalogue"

\* Mutant of _call_openai_api: a request that failed is posted once more.
_call_openai_api_retrying(outcome) ==
    IF outcome \in {"timeout", "request"} THEN 2 ELSE 1

\* ai_service.py:66-108: the requests one call of _call_openai_api posts,
\* whatever it ends with: requests.post is called once, outside any loop.
_call_openai_api(outcome) == 1

\* The step-1 reply as parsed (ai_service.py:527), `text` being what the
\* LLM wrote as its note.
Step1Data(outcome, text) ==
    CASE outcome = "none" ->
            [services_to_check |-> << >>, preliminary_note |-> text,
             is_it_related |-> TRUE]
      [] outcome = "missing" ->
            [preliminary_note |-> text]
      [] outcome = "cands" ->
            [services_to_check |-> << ServiceKey >>, preliminary_note |-> text,
             is_it_related |-> TRUE]

\* Revision keys the LLM names although the detail fetch returned nothing
\* for them.
UnlistedKeys == << "CAT-OLD-1", "CAT-OLD-2" >>

\* The step-2 reply as parsed (ai_service.py:609), with the LLM's assessment
\* in `text`.
Step2Data(outcome, text) ==
    CASE outcome = "unlisted" ->
            [overall_assessment   |-> text,
             recommended_services |->
                << [service_key |-> RevisionKeys[1], reason |-> text],
                   [service_key |-> UnlistedKeys[1], reason |-> text] >>,
             also_checked         |->
                << [service_key |-> UnlistedKeys[2], reason |-> text],
                   [service_key |-> RevisionKeys[1], reason |-> text] >>]
      [] outcome = "keyless_also" ->
            [overall_assessment   |-> text,
             recommended_services |->
                << [service_key |-> RevisionKeys[1], reason |-> text] >>,
             also_checked         |-> << [reason |-> text] >>]
      [] outcome = "keyless_recommended" ->
            [overall_assessment   |-> text,
             recommended_services |-> << [reason |-> text] >>,
             also_checked         |-> << >>]
      [] OTHER ->
            [overall_assessment   |-> text,
             recommended_services |->
                << [service_key |-> RevisionKeys[1], reason |-> text] >>,
             also_checked         |-> << >>]

\* Mutant of RaisesKeyError: the keys are read with .get and nothing raises.
RaisesNoKeyError(recommended_services) == FALSE

\* ai_service.py:617: s['service_key'] raises KeyError for an entry of
\* recommended_services that has no service_key.
RaisesKeyError(recommended_services) ==
    \E i \in 1..Len(recommended_services) :
        "service_key" \notin DOMAIN recommended_services[i]

\* ai_service.py:617: the keys written to log_entry.services_recommended.
RecommendedKeys(recommended_services) ==
    [i \in 1..Len(recommended_services) |->
        Get(recommended_services[i], "service_key", "")]

\* Mutant of Enrich: every entry gains the two fields, the key standing in
\* for the name of a revision that was not fetched.
EnrichAlways(service, services_details) ==
    LET service_key == Get(service, "service_key", "")
        found == { i \in 1..Len(services_details) :
                      services_details[i]["key"] = service_key }
        name == IF found = {} THEN service_key
                ELSE Get(services_details[CHOOSE i \in found : TRUE], "name", service_key)
        version == IF found = {} THEN ""
                   ELSE Get(services_details[CHOOSE i \in found : TRUE], "version", "")
    IN  [f \in DOMAIN service \cup {"service_name", "service_version"} |->
            IF f = "service_name" THEN name
            ELSE IF f = "service_version" THEN version
            ELSE service[f]]

\* ai_service.py:620-632: an entry whose service_key is a key of the fetched
\* details gains the name and the version of that revision; any other entry
\* stays as it is.
Enrich(service, services_details) ==
    LET service_key == Get(service, "service_key", "")
        found == { i \in 1..Len(services_details) :
                      services_details[i]["key"] = service_key }
    IN  IF found = {} THEN service
        ELSE LET details == services_details[CHOOSE i \in found : TRUE]
             IN  [f \in DOMAIN service \cup {"service_name", "service_version"} |->
                    IF f = "service_name" THEN Get(details, "name", service_key)
                    ELSE IF f = "service_version" THEN Get(details, "version", "")
                    ELSE service[f]]

\* ai_service.py:535
services_to_check(step1_data) == Get(step1_data, "services_to_check", << >>)

\* Was the step-1 reply parsed (ai_service.py:527 passed)?
Step1Parsed(step, outcome) == step = 2 \/ outcome \in {"none", "missing", "cands"}

\* Mutant of LogEntry: the record counts step 1 as completed from the start.
LogEntryStep1Done(step, outcome, text) ==
    [step1_completed    |-> TRUE,
     step2_needed       |-> (step = 2),
     services_requested |->
        IF Step1Parsed(step, outcome)
        THEN Some(services_to_check(Step1Data(IF step = 2 THEN "cands" ELSE outcome, text)))
        ELSE None,
     services_recommended |->
        IF /\ step = 2 /\ Step2Parsed(outcome)
           /\ ~RaisesKeyError(Step2Data(outcome, text).recommended_services)
        THEN Some(RecommendedKeys(Step2Data(outcome, text).recommended_services))
        ELSE None,
     tokens_used_step1  |-> Some("total_tokens"),
     tokens_used_step2  |->
        IF step = 2 /\ outcome \notin {"timeout", "request"}
        THEN Some("total_tokens") ELSE None,
     error_occurred     |-> FALSE,
     error_message      |-> ""]

\* Mutant of LogEntry: step 1 counts as completed once its reply is parsed.
LogEntryByParse(step, outcome, text) ==
    [step1_completed    |-> Step1Parsed(step, outcome),
     step2_needed       |-> (step = 2),
     services_requested |->
        IF Step1Parsed(step, outcome)
        THEN Some(services_to_check(Step1Data(IF step = 2 THEN "cands" ELSE outcome, text)))
        ELSE None,
     services_recommended |->
        IF /\ step = 2 /\ Step2Parsed(outcome)
           /\ ~RaisesKeyError(Step2Data(outcome, text).recommended_services)
        THEN Some(RecommendedKeys(Step2Data(outcome, text).recommended_services))
        ELSE None,
     tokens_used_step1  |->
        IF step = 1 /\ outcome \in {"timeout", "request", "catalogue"}
        THEN None ELSE Some("total_tokens"),
     tokens_used_step2  |->
        IF step = 2 /\ outcome \notin {"timeout", "request"}
        THEN Some("total_tokens") ELSE None,
     error_occurred     |-> FALSE,
     error_message      |-> ""]

\* AISearchLog(user=user) with the model's defaults (models.py:657-690),
\* after the assignments perform_search made up to the end of the given
\* step (ai_service.py:512-513, 536, 540, 561, 600, 617); the timestamp and
\* the duration are left out.
LogEntry(step, outcome, text) ==
    [step1_completed    |-> ~(step = 1 /\ outcome \in {"timeout", "request", "catalogue"}),
     step2_needed       |-> (step = 2),
     services_requested |->
        IF Step1Parsed(step, outcome)
        THEN Some(services_to_check(Step1Data(IF step = 2 THEN "cands" ELSE outcome, text)))
        ELSE None,
     services_recommended |->
        IF /\ step = 2 /\ Step2Parsed(outcome)
           /\ ~RaisesKeyError(Step2Data(outcome, text).recommended_services)
        THEN Some(RecommendedKeys(Step2Data(outcome, text).recommended_services))
        ELSE None,
     tokens_used_step1  |->
        IF step = 1 /\ outcome \in {"timeout", "request", "catalogue"}
        THEN None ELSE Some("total_tokens"),
     tokens_used_step2  |->
        IF step = 2 /\ outcome \notin {"timeout", "request"}
        THEN Some("total_tokens") ELSE None,
     error_occurred     |-> FALSE,
     error_message      |-> ""]

\* Mutant of HandleException: the exception is not caught by perform_search.
HandleExceptionUncaught(log, message, saved) ==
    [rows   |-> << >>,
     ending |-> [kind |-> "raised", message |-> message]]

\* ai_service.py:654-665: the handler of `except Exception`.  saved = TRUE
\* when log_entry.save() succeeds; otherwise the database error leaves
\* perform_search.
HandleException(log, message, saved) ==
    IF saved
    THEN [rows   |-> << [log EXCEPT !.error_occurred = TRUE, !.error_message = message] >>,
          ending |-> [kind |-> "returned",
                      result |-> [success |-> FALSE, error |-> message]]]
    ELSE [rows   |-> << >>,
          ending |-> [kind |-> "raised", message |-> DbError]]

\* Mutant of Step1Result: the note and the flag of the reply are dropped.
Step1ResultBare(step1_data) ==
    [success         |-> TRUE,
     step1_only      |-> TRUE,
     step1_completed |-> TRUE,
     step2_completed |-> FALSE,
     message         |-> "",
     is_it_related   |-> FALSE]

\* ai_service.py:544-552: the result of a search that ends after step 1.
Step1Result(step1_data) ==
    [success         |-> TRUE,
     step1_only      |-> TRUE,
     step1_completed |-> TRUE,
     step2_completed |-> FALSE,
     message         |-> Get(step1_data, "preliminary_note", ""),
     is_it_related   |-> Get(step1_data, "is_it_related", FALSE)]

\* ai_service.py:620-647: the result of a search that went through step 2,
\* its entries enriched from the fetched details.
Step2Result(step1_data, step2_data) ==
    [success              |-> TRUE,
     step1_only           |-> FALSE,
     step1_completed      |-> TRUE,
     step2_completed      |-> TRUE,
     services_checked     |-> services_to_check(step1_data),
     overall_assessment   |-> Get(step2_data, "overall_assessment", ""),
     recommended_services |->
        LET recommended_services == Get(step2_data, "recommended_services", << >>)
        IN  [i \in 1..Len(recommended_services) |->
                Enrich(recommended_services[i],
                       _get_service_details(services_to_check(step1_data)))],
     also_checked         |->
        LET also_checked == Get(step2_data, "also_checked", << >>)
        IN  [i \in 1..Len(also_checked) |->
                Enrich(also_checked[i],
                       _get_service_details(services_to_check(step1_data)))]]

\* Mutant of ReturnResult: the result is returned without saving the record.
ReturnResultUnlogged(log, result, saved1, saved2) ==
    [rows   |-> << >>,
     ending |-> [kind |-> "returned", result |-> result]]

\* ai_service.py:539-557 and 634-652: the record is saved and the result
\* returned; a failing save is an exception like any other.
ReturnResult(log, result, saved1, saved2) ==
    IF saved1
    THEN [rows   |-> << log >>,
          ending |-> [kind |-> "returned", result |-> result]]
    ELSE HandleException(log, DbError, saved2)

\* The end of perform_search after a step ended with `outcome`, `text` being
\* the free text of the LLM's replies.
EndOfSearch(step, outcome, text, saved1, saved2) ==
    IF step = 1 /\ outcome \in {"none", "missing"}
    THEN ReturnResult(LogEntry(step, outcome, text),
                      Step1Result(Step1Data(outcome, text)), saved1, saved2)
    ELSE IF /\ step = 2 /\ Step2Parsed(outcome)
            /\ ~RaisesKeyError(Step2Data(outcome, text).recommended_services)
    THEN ReturnResult(LogEntry(step, outcome, text),
                      Step2Result(Step1Data("cands", text), Step2Data(outcome, text)),
                      saved1, saved2)
    ELSE HandleException(LogEntry(step, outcome, text), ErrorMessage(step, outcome),
                         saved1)

\* ai_service.py:493-502: the step-1 prompt and the message list of the
\* first call.
Step1Prompt(user_input) ==
    [template |-> "step1", user_input |-> user_input, lists |-> Step1Lists]

Step1Messages(user_input) ==
    << [role |-> "system", content |-> Step1Prompt(user_input)] >>

\* The raw step-1 reply: the JSON text of the outcome, inside the code fence
\* the LLM puts around it.
Step1Response(outcome, text) ==
    [wrapper |-> "code fence", reply |-> outcome, text |-> text]

\* ai_service.py:522: the reply without its wrapper, which is what
\* json.loads is given.
ExtractedReply(raw) == [reply |-> raw.reply, text |-> raw.text]

\* ai_service.py:566-583: the detail fetch and the step-2 prompt.
Step2Prompt(user_input, step1_data) ==
    [template          |-> "step2",
     user_input        |-> user_input,
     services_to_check |-> services_to_check(step1_data),
     services_details  |->
        _format_services_details(_get_service_details(services_to_check(step1_data)))]

\* Mutant of Step2Messages: the assistant turn carries the extracted JSON.
Step2MessagesExtracted(user_input, text) ==
    << [role |-> "system", content |-> Step1Prompt(user_input)],
       [role |-> "assistant", content |-> ExtractedReply(Step1Response("cands", text))],
       [role |-> "user", content |-> Step2Prompt(user_input, Step1Data("cands", text))] >>

\* ai_service.py:585-590: the conversation of the second call.
Step2Messages(user_input, text) ==
    << [role |-> "system", content |-> Step1Prompt(user_input)],
       [role |-> "assistant", content |-> Step1Response("cands", text)],
       [role |-> "user", content |-> Step2Prompt(user_input, Step1Data("cands", text))] >>

----------------------------------------------------------------------------
(* The diagnostic command test_ai_search (management/commands/             *)
(* test_ai_search.py): Command.handle runs its ten checks in order in a    *)
(* process of its own and leaves through sys.exit.                         *)

\* The model names of a run; "" is the setting left empty and the option
\* that was not given.
ModelNames == { "alpha", "beta" }

\* Longest model listing the models endpoint returns.
MaxListed == 2

Range(s) == { s[i] : i \in 1..Len(s) }

NoBody == [format |-> "none", entries |-> << >>]

\* What a request of the command ends with: a response, or an exception of
\* requests (Timeout, ConnectionError) or of anything else.
HttpReply(status_code, body) ==
    [kind |-> "response", status_code |-> status_code, body |-> body]

Raised(exception) == [kind |-> exception, status_code |-> 0, body |-> NoBody]

NoReply == [kind |-> "none", status_code |-> 0, body |-> NoBody]

RequestExceptions == { "Timeout", "ConnectionError", "Exception" }

\* The listings of the models endpoint: the 'id' of each entry, "" for an
\* entry without one.
ModelListings == UNION { [1..n -> ModelNames \cup {""}] : n \in 0..MaxListed }

\* The replies to POST <base>/models: 200 with {"data": [...]}, with a bare
\* list, with another JSON value or with a body that is not JSON; 401, 404,
\* another status; an exception.
ModelsReplies ==
    { HttpReply(200, [format |-> f, entries |-> e]) :
            f \in {"data", "list"}, e \in ModelListings }
    \cup { HttpReply(200, [format |-> f, entries |-> << >>]) : f \in {"other", "invalid"} }
    \cup { HttpReply(s, NoBody) : s \in {401, 404, 500} }
    \cup { Raised(e) : e \in RequestExceptions }

\* The replies to POST <base>/chat/completions: 200 with choices, with
\* another JSON value or with a body that is not JSON; an error status; an
\* exception.
ChatReplies ==
    { HttpReply(200, [format |-> f, entries |-> << >>]) :
            f \in {"choices", "other", "invalid"} }
    \cup { HttpReply(s, NoBody) : s \in {401, 403, 404, 429, 500} }
    \cup { Raised(e) : e \in RequestExceptions }

\* test_ai_search.py:88-107: the model the run tests.
EffectiveModel(AI_SEARCH_MODEL, model_override) ==
    IF model_override # "" THEN model_override ELSE AI_SEARCH_MODEL

\* test_ai_search.py:160-166: the ids of a 200 reply; entries without an id
\* are left out.
model_ids(body) ==
    IF body.format \in {"data", "list"}
    THEN SelectSeq(body.entries, LAMBDA id : id # "")
    ELSE << >>

\* Mutant of ModelsCheckFails: a model missing from the listing is only
\* reported.
ModelsCheckFailsOn401(reply, model) ==
    \/ reply.kind = "response" /\ reply.status_code = 401
    \/ reply.kind = "ConnectionError"

\* test_ai_search.py:142-226: does check 7 set all_checks_passed to False?
\* It does when the listing has ids and the model is not among them, on 401
\* and on a connection error; 404, another status, a timeout, any other
\* exception and an unreadable body are warnings.
ModelsCheckFails(reply, model) ==
    \/ /\ reply.kind = "response" /\ reply.status_code = 200
       /\ model_ids(reply.body) # << >>
       /\ model \notin Range(model_ids(reply.body))
    \/ reply.kind = "response" /\ reply.status_code = 401
    \/ reply.kind = "ConnectionError"

\* test_ai_search.py:228-336: does check 8 set all_checks_passed to False?
\* Only a 200 reply whose body is JSON passes.
ChatCheckFails(reply) ==
    ~(/\ reply.kind = "response" /\ reply.status_code = 200
      /\ reply.body.format # "invalid")

\* The command before it is invoked.
NotInvoked ==
    [pc                |-> "idle",
     AI_SEARCH_ENABLED |-> FALSE,
     AI_SEARCH_API_URL |-> "",
     AI_SEARCH_API_KEY |-> "",
     AI_SEARCH_MODEL   |-> "",
     model_override    |-> "",
     model             |-> "",
     all_checks_passed |-> TRUE,
     failed            |-> {},
     models_response   |-> NoReply,
     end_to_end        |-> "pending",
     log               |-> << >>,
     exit_code         |-> None]

\* test_ai_search.py:42-50: handle() is entered with the settings and the
\* option of the run.
Invoked(enabled, api_url, api_key, AI_SEARCH_MODEL, model_override) ==
    [NotInvoked EXCEPT !.pc = "start",
                       !.AI_SEARCH_ENABLED = enabled,
                       !.AI_SEARCH_API_URL = api_url,
                       !.AI_SEARCH_API_KEY = api_key,
                       !.AI_SEARCH_MODEL = AI_SEARCH_MODEL,
                       !.model_override = model_override]

\* The end of check n: a failing check sets all_checks_passed to False, a
\* passing one leaves it as it is; `failed` keeps the checks that failed.
Checked(n, fails, next) ==
    [command EXCEPT !.pc = next,
                    !.all_checks_passed = IF fails THEN FALSE ELSE @,
                    !.failed = IF fails THEN @ \cup {n} ELSE @]

\* sys.exit(code).
Exit(cmd, code) == [cmd EXCEPT !.pc = "exited", !.exit_code = Some(code)]

\* test_ai_search.py:52-114: checks 1 to 5 and the stop on an incomplete
\* basic configuration (check 5 prints the timeout and fails nothing).
check_configuration ==
    /\ command.pc = "start"
    /\ LET model == EffectiveModel(command.AI_SEARCH_MODEL, command.model_override)
           failed == { n \in 1..4 :
                         \/ n = 1 /\ ~command.AI_SEARCH_ENABLED
                         \/ n = 2 /\ command.AI_SEARCH_API_URL = ""
                         \/ n = 3 /\ command.AI_SEARCH_API_KEY = ""
                         \/ n = 4 /\ model = "" }
           checked == [command EXCEPT !.model = model,
                                      !.failed = failed,
                                      !.all_checks_passed = (failed = {})]
       IN command' =
            IF /\ command.AI_SEARCH_ENABLED
               /\ command.AI_SEARCH_API_URL # ""
               /\ command.AI_SEARCH_API_KEY # ""
               /\ model # ""
            THEN [checked EXCEPT !.pc = "check6"]
            ELSE Exit(checked, 1)
    /\ UNCHANGED <<environment, extraction, messages, store, cache, pc, audit, llmCalls, launched,
                   quota, response>>

\* test_ai_search.py:121-140: check 6, GET of the base URL; any response
\* passes, any exception fails.
check_network(reply) ==
    /\ command.pc = "check6"
    /\ command' = Checked(6, reply.kind # "response", "check7")
    /\ UNCHANGED <<environment, extraction, messages, store, cache, pc, audit, llmCalls, launched,
                   quota, response>>

\* test_ai_search.py:142-226: check 7, the listing of the models endpoint.
check_models(reply) ==
    /\ command.pc = "check7"
    /\ command' = [Checked(7, ModelsCheckFails(reply, command.model), "check8")
                        EXCEPT !.models_response = reply]
    /\ UNCHANGED <<environment, extraction, messages, store, cache, pc, audit, llmCalls, launched,
                   quota, response>>

\* test_ai_search.py:228-336: check 8, a minimal chat completion.
check_chat(reply) ==
    /\ command.pc = "check8"
    /\ command' = Checked(8, ChatCheckFails(reply), "check9")
    /\ UNCHANGED <<environment, extraction, messages, store, cache, pc, audit, llmCalls, launched,
                   quota, response>>

\* test_ai_search.py:338-357: check 9, both prompt files exist.
check_prompts(found) ==
    /\ command.pc = "check9"
    /\ command' = Checked(9, ~found, "check10")
    /\ UNCHANGED <<environment, extraction, messages, store, cache, pc, audit, llmCalls, launched,
                   quota, response>>

\* The ends of the search of check 10: the step it ends in and what the
\* step ends with.
SearchEnds ==
    { <<1, outcome>> : outcome \in Step1Outcomes \ {"cands"} }
    \cup { <<2, outcome>> : outcome \in Step2Outcomes }

\* test_ai_search.py:359-468: check 10.  With all_checks_passed and a listed
\* revision, perform_search runs (and saves its AISearchLog record); the
\* check fails when the result is no success or an exception leaves the
\* search.  Otherwise the search is skipped.
check_end_to_end(end, saved1, saved2) ==
    /\ command.pc = "check10"
    /\ command' =
         IF ~command.all_checks_passed
         THEN [command EXCEPT !.pc = "summary", !.end_to_end = "skipped"]
         ELSE IF Len(catalogue) = 0
         THEN [command EXCEPT !.pc = "summary", !.end_to_end = "no services"]
         ELSE LET search == EndOfSearch(end[1], end[2], prose, saved1, saved2)
                  fails  == IF search.ending.kind = "returned"
                            THEN ~search.ending.result.success
                            ELSE TRUE
              IN [Checked(10, fails, "summary")
                    EXCEPT !.end_to_end = "searched", !.log = search.rows]
    /\ UNCHANGED <<environment, extraction, messages, store, cache, pc, audit, llmCalls, launched,
                   quota, response>>

\* test_ai_search.py:470-492: the summary and the exit code.
summary ==
    /\ command.pc = "summary"
    /\ command' = Exit(command, IF command.all_checks_passed THEN 0 ELSE 1)
    /\ UNCHANGED <<environment, extraction, messages, store, cache, pc, audit, llmCalls, launched,
                   quota, response>>

----------------------------------------------------------------------------
(* The response extractor (ai_service.py:404-450) on character sequences.  *)

Min(S) == CHOOSE i \in S : \A k \in S : i <= k
Max(S) == CHOOSE i \in S : \A k \in S : i >= k

\* A TLA+ string cannot hold the grave accent; the apostrophe stands for it.
Backtick == "'"
Fence == << Backtick, Backtick, Backtick >>
ThinkOpen == << "<", "t", "h", "i", "n", "k", ">" >>
ThinkClose == << "<", "/", "t", "h", "i", "n", "k", ">" >>
Newline == << "\n" >>

\* Does pattern occur in s at index i?
MatchAt(s, pattern, i) ==
    /\ i >= 1
    /\ i + Len(pattern) - 1 <= Len(s)
    /\ SubSeq(s, i, i + Len(pattern) - 1) = pattern

\* str.find(pattern, from): the first index at or after `from`, counted
\* from 1; 0 where Python returns -1.
Find(s, pattern, from) ==
    LET hits == { i \in from..Len(s) : MatchAt(s, pattern, i) }
    IN  IF hits = {} THEN 0 ELSE Min(hits)

\* str.rfind(pattern): the last index, counted from 1; 0 for -1.
RFind(s, pattern) ==
    LET hits == { i \in 1..Len(s) : MatchAt(s, pattern, i) }
    IN  IF hits = {} THEN 0 ELSE Max(hits)

\* re.sub(r'<think>.*?</think>', '', s, flags=re.DOTALL): every leftmost
\* shortest block is cut out, the scan resuming behind it; the result is
\* not scanned again.
RECURSIVE RemoveThink(_)
RemoveThink(s) ==
    LET open == Find(s, ThinkOpen, 1)
        close == IF open = 0 THEN 0 ELSE Find(s, ThinkClose, open + Len(ThinkOpen))
    IN  IF close = 0
        THEN s
        ELSE SubSeq(s, 1, open - 1)
             \o RemoveThink(SubSeq(s, close + Len(ThinkClose), Len(s)))

\* Mutant of FenceContent: the text between the fences is taken untrimmed.
FenceContentUntrimmed(s, first_newline, closing_idx) ==
    SubSeq(s, first_newline + 1, closing_idx - 1)

\* ai_service.py:435: response[first_newline + 1:closing_idx].strip()
FenceContent(s, first_newline, closing_idx) ==
    Strip(SubSeq(s, first_newline + 1, closing_idx - 1))

\* ai_service.py:428-435: a text that starts with a fence loses its first
\* line and everything from the last fence on.
FenceRemoved(s) ==
    IF ~MatchAt(s, Fence, 1)
    THEN s
    ELSE LET first_newline == Find(s, Newline, 1)
             closing_idx == RFind(s, Fence)
         IN  IF first_newline # 0 /\ closing_idx # 0 /\ closing_idx > first_newline
             THEN FenceContent(s, first_newline, closing_idx)
             ELSE s

\* Mutant of Unwrapped: the text is not trimmed after the reasoning blocks
\* are removed.
UnwrappedUntrimmed(text) == FenceRemoved(RemoveThink(Strip(text)))

\* ai_service.py:420-435: trimmed, reasoning blocks removed, trimmed, fence
\* removed.
Unwrapped(text) == FenceRemoved(Strip(RemoveThink(Strip(text))))

\* The span from start_idx to the last end_char, if that comes later.
Span(s, start_idx, end_char) ==
    LET end_idx == RFind(s, << end_char >>)
    IN  IF end_idx > start_idx THEN SubSeq(s, start_idx, end_idx) ELSE s

\* Mutant of Narrowed: the boundaries are searched in every text.
NarrowedAlways(s) ==
    LET brace == Find(s, << "{" >>, 1)
        start_idx == IF brace # 0 THEN brace ELSE Find(s, << "[" >>, 1)
    IN  IF start_idx = 0
        THEN s
        ELSE Span(s, start_idx, IF s[start_idx] = "{" THEN "}" ELSE "]")

\* Mutant of Narrowed: a brace without a later closing brace makes the
\* search go on with the brackets.
NarrowedFallingBack(s) ==
    IF s # << >> /\ s[1] \in {"{", "["}
    THEN s
    ELSE LET brace == Find(s, << "{" >>, 1)
             bracket == Find(s, << "[" >>, 1)
         IN  IF brace # 0 /\ RFind(s, << "}" >>) > brace
             THEN Span(s, brace, "}")
             ELSE IF bracket # 0 THEN Span(s, bracket, "]") ELSE s

\* ai_service.py:438-448: a text that does not start with a brace or a
\* bracket is cut down to the span from its first brace (or, without a
\* brace, its first bracket) to the last matching closing character.
Narrowed(s) ==
    IF s # << >> /\ s[1] \in {"{", "["}
    THEN s
    ELSE LET brace == Find(s, << "{" >>, 1)
             start_idx == IF brace # 0 THEN brace ELSE Find(s, << "[" >>, 1)
         IN  IF start_idx = 0
             THEN s
             ELSE Span(s, start_idx, IF s[start_idx] = "{" THEN "}" ELSE "]")

\* AISearchService._extract_json_from_response
_extract_json_from_response(text) == Narrowed(Unwrapped(text))

\* json.loads on the texts of the model: whitespace, then an empty object
\* or an array of such values, then whitespace.  SkipWs is the index of the
\* first character at or after i that is not whitespace; ValueEnd is the
\* index behind the value that starts at i, 0 if none starts there.
RECURSIVE SkipWs(_, _)
SkipWs(s, i) == IF i <= Len(s) /\ IsSpace(s[i]) THEN SkipWs(s, i + 1) ELSE i

RECURSIVE ValueEnd(_, _)
ValueEnd(s, i) ==
    IF i > Len(s) \/ s[i] \notin {"{", "["}
    THEN 0
    ELSE LET k == SkipWs(s, i + 1)
         IN  IF k > Len(s)
             THEN 0
             ELSE IF s[i] = "{"
             THEN IF s[k] = "}" THEN k + 1 ELSE 0
             ELSE IF s[k] = "]"
             THEN k + 1
             ELSE LET e == ValueEnd(s, k)
                      m == IF e = 0 THEN 0 ELSE SkipWs(s, e)
                  IN  IF m # 0 /\ m <= Len(s) /\ s[m] = "]" THEN m + 1 ELSE 0

\* Does json.loads(s) return?
json_loads(s) ==
    LET e == ValueEnd(s, SkipWs(s, 1))
    IN  e # 0 /\ SkipWs(s, e) = Len(s) + 1

\* ai_service.py:519-533: what the step-1 reply text comes to.
Step1Parse(json_content) ==
    IF json_content = << >>
    THEN "empty"
    ELSE IF json_loads(json_content) THEN "parsed" ELSE "malformed"

\* The reply texts of the model: a payload inside wrappers.
MaxPayload == 3
MaxWraps == 2

PayloadChars == { "{", "}", "[", "]", "x" }
Payloads == UNION { [1..n -> PayloadChars] : n \in 0..MaxPayload }

Wrappers ==
    { "fence", "fence_json", "think", "think_lines", "prose", "trailing", "space" }
Wrappings == UNION { [1..n -> Wrappers] : n \in 0..MaxWraps }

Wrap(wrapper, text) ==
    CASE wrapper = "fence"       -> Fence \o Newline \o text \o Newline \o Fence
      [] wrapper = "fence_json"  ->
            Fence \o << "j", "s", "o", "n" >> \o Newline \o text \o Newline \o Fence
      [] wrapper = "think"       -> ThinkOpen \o << "x" >> \o ThinkClose \o text
      [] wrapper = "think_lines" ->
            ThinkOpen \o << "\n", "x", "\n", "x", "\n" >> \o ThinkClose \o Newline \o text
      [] wrapper = "prose"       -> << "x", " " >> \o text \o << " ", "x" >>
      [] wrapper = "trailing"    -> text \o << " ", "x" >>
      [] wrapper = "space"       -> << " " >> \o text \o Newline

\* The payload with the wrappers put around it, the first one innermost.
RECURSIVE Wrapped(_, _)
Wrapped(payload, wrappers) ==
    IF wrappers = << >>
    THEN payload
    ELSE Wrapped(Wrap(Head(wrappers), payload), Tail(wrappers))

NotExtracting == [pc |-> "idle"]

Received(payload, wrappers) ==
    [pc |-> "reply", payload |-> payload, wrappers |-> wrappers,
     text |-> Wrapped(payload, wrappers)]

\* The extractor is applied to the reply text.
Extract ==
    /\ extraction.pc = "reply"
    /\ extraction' = [payload |-> extraction.payload, wrappers |-> extraction.wrappers,
                      text |-> extraction.text, pc |-> "once",
                      first |-> _extract_json_from_response(extraction.text)]
    /\ UNCHANGED <<environment, command, messages, store, cache, pc, audit, llmCalls,
                   launched, quota, response>>

\* The extractor is applied to its own output.
ExtractAgain ==
    /\ extraction.pc = "once"
    /\ extraction' = [payload |-> extraction.payload, wrappers |-> extraction.wrappers,
                      text |-> extraction.text, pc |-> "twice",
                      first |-> extraction.first,
                      second |-> _extract_json_from_response(extraction.first)]
    /\ UNCHANGED <<environment, command, messages, store, cache, pc, audit, llmCalls,
                   launched, quota, response>>

\* ai_service.py:519-533: the step-1 reply text is extracted and loaded.
ParseStep1Reply ==
    /\ extraction.pc = "reply"
    /\ LET json_content == _extract_json_from_response(extraction.text)
           outcome == Step1Parse(json_content)
       IN  extraction' =
               [payload |-> extraction.payload, wrappers |-> extraction.wrappers,
                text |-> extraction.text, pc |-> "parsed",
                first |-> json_content, outcome |-> outcome,
                error |-> IF outcome = "parsed" THEN "" ELSE ErrorMessage(1, outcome)]
    /\ UNCHANGED <<environment, command, messages, store, cache, pc, audit, llmCalls,
                   launched, quota, response>>

----------------------------------------------------------------------------
\* The settings of a default installation: login required, every optional
\* field shown.
DefaultSettings == Settings(TRUE, TRUE, OptionalFields)

\* A catalogue whose service has one listed revision with every field filled.
DefaultCatalogue == << Revision(RevisionKeys[1], RevisionFields) >>

DefaultProse == "We recommend the following."

\* No job has been launched; the caller will launch up to n.
NoJobs(n) ==
    /\ messages = [j \in JobIds |-> << >>]
    /\ store = EmptyDict
    /\ cache = [j \in JobIds |-> EmptyDict]
    /\ pc = [j \in JobIds |-> "unborn"]
    /\ audit = [j \in JobIds |-> << >>]
    /\ llmCalls = [j \in JobIds |-> 0]
    /\ launched = 0
    /\ quota = n
    /\ response = NoResponse

InitWith(n) ==
    /\ aiEnabled \in BOOLEAN
    /\ settings = DefaultSettings
    /\ authenticated = TRUE
    /\ catalogue = DefaultCatalogue
    /\ prose = DefaultProse
    /\ NoJobs(n)
    /\ command = NotInvoked
    /\ extraction = NotExtracting

\* The caller launches up to MaxJobs jobs from the same session.
Init == InitWith(MaxJobs)

\* The caller launches one job.
InitOneJob == InitWith(1)

----------------------------------------------------------------------------
(* The endpoints (views.py), each behind ai_search_login_required.         *)

\* views.py:269-274: the caller is sent to the login page and the view is
\* not run.
redirect_to_login(op) ==
    /\ response' = JsonResponse(op, 302, 0, <<>>)
    /\ UNCHANGED <<environment, command, extraction, messages, store, cache, pc, audit, llmCalls, launched, quota>>

\* Mutant of ai_search_login_required: only AI_SEARCH_REQUIRE_LOGIN counts.
ai_search_login_required_own_flag == settings.AI_SEARCH_REQUIRE_LOGIN /\ ~authenticated

\* views.py:247-276: does the decorator refuse the request?
ai_search_login_required == require_login /\ ~authenticated

\* views.py:1048-1138: the search page; it reads settings and renders.
ai_search_view ==
    IF ai_search_login_required THEN redirect_to_login("page")
    ELSE /\ response' = JsonResponse("page", 200, 0, <<>>)
         /\ UNCHANGED <<environment, command, extraction, messages, store, cache, pc, audit, llmCalls, launched, quota>>

\* views.py:1141-1236.  The request loads the session, adds the entry, saves
\* and starts the thread, which keeps this request's SessionStore.
ai_search_initiate(method, body) ==
    IF ai_search_login_required THEN redirect_to_login("initiate")
    ELSE IF method # "POST"
    THEN /\ response' = JsonResponse("initiate", 405, 0, <<>>)
         /\ UNCHANGED <<environment, command, extraction, messages, store, cache, pc, audit, llmCalls, launched, quota>>
    ELSE IF ~aiEnabled
    THEN /\ response' = JsonResponse("initiate", 503, 0, <<>>)
         /\ UNCHANGED <<environment, command, extraction, messages, store, cache, pc, audit, llmCalls, launched, quota>>
    ELSE IF body[1] = "invalid"
    THEN \* json.loads raises; the outer handler answers 500
         /\ response' = JsonResponse("initiate", 500, 0, <<>>)
         /\ UNCHANGED <<environment, command, extraction, messages, store, cache, pc, audit, llmCalls, launched, quota>>
    ELSE LET user_input == Strip(IF Len(body) = 2 THEN body[2] ELSE <<>>) IN
         IF user_input = <<>>
         THEN /\ response' = JsonResponse("initiate", 400, 0, <<>>)
              /\ UNCHANGED <<environment, command, extraction, messages, store, cache, pc, audit, llmCalls, launched, quota>>
         ELSE /\ launched < quota
              /\ LET request_id == launched + 1
                     session == DictSet(store, request_id, InitialEntry(user_input))
                 IN /\ store' = SessionSave(session)
                    /\ cache' = [cache EXCEPT ![request_id] = session]
                    /\ pc' = [pc EXCEPT ![request_id] = "start"]
                    /\ launched' = request_id
                    /\ response' = JsonResponse("initiate", 200, request_id, <<>>)
              /\ UNCHANGED <<environment, command, extraction, messages, audit, llmCalls, quota>>

\* views.py:1264-1278: the body of the status response.
StatusBody(search_data) ==
    LET status == search_data.status
        base == [status |-> status, progress |-> search_data.progress]
    IN  IF status = "completed"
        THEN [status |-> base.status, progress |-> base.progress,
              result |-> IF "result" \in DOMAIN search_data
                         THEN search_data.result ELSE <<>>,
              user_input |-> search_data.user_input]
        ELSE IF status = "error"
        THEN [status |-> base.status, progress |-> base.progress,
              error |-> IF "error" \in DOMAIN search_data
                        THEN search_data.error ELSE "Unknown error"]
        ELSE base

\* Mutant of StatusResponse: a missing entry raises and the handler answers 500.
StatusResponseRaising(session, method, request_id) ==
    IF method # "GET"
    THEN JsonResponse("status", 405, 0, <<>>)
    ELSE IF request_id \notin DOMAIN session
    THEN JsonResponse("status", 500, request_id, <<>>)
    ELSE JsonResponse("status", 200, request_id, StatusBody(session[request_id]))

\* views.py:1239-1282
StatusResponse(session, method, request_id) ==
    IF method # "GET"
    THEN JsonResponse("status", 405, 0, <<>>)
    ELSE IF request_id \notin DOMAIN session
    THEN JsonResponse("status", 404, request_id, <<>>)
    ELSE JsonResponse("status", 200, request_id, StatusBody(session[request_id]))

\* Mutant of ai_search_status: a finished job is handed out once and removed.
ai_search_status_consuming(method, request_id) ==
    /\ response' = StatusResponse(store, method, request_id)
    /\ store' = IF /\ method = "GET"
                   /\ request_id \in DOMAIN store
                   /\ store[request_id].status \in {"completed", "error"}
                THEN DictDel(store, request_id)
                ELSE store
    /\ UNCHANGED <<environment, command, extraction, messages, cache, pc, audit, llmCalls, launched, quota>>

ai_search_status(method, request_id) ==
    IF ai_search_login_required THEN redirect_to_login("status")
    ELSE
    /\ response' = StatusResponse(store, method, request_id)
    /\ UNCHANGED <<environment, command, extraction, messages, store, cache, pc, audit, llmCalls, launched, quota>>

\* Mutant of ClearedSession: the request drops every job of the session.
ClearedSessionAll(session, request_id) == EmptyDict

\* views.py:1285-1300: the session after the request.
ClearedSession(session, request_id) ==
    IF request_id \in DOMAIN session THEN DictDel(session, request_id) ELSE session

ai_search_clear(method, request_id) ==
    IF ai_search_login_required THEN redirect_to_login("clear")
    ELSE IF method # "POST"
    THEN /\ response' = JsonResponse("clear", 405, 0, <<>>)
         /\ UNCHANGED <<environment, command, extraction, messages, store, cache, pc, audit, llmCalls, launched, quota>>
    ELSE /\ store' = SessionSave(ClearedSession(store, request_id))
         /\ response' = JsonResponse("clear", 200, request_id, <<>>)
         /\ UNCHANGED <<environment, command, extraction, messages, cache, pc, audit, llmCalls, launched, quota>>

----------------------------------------------------------------------------
(* The background thread run_search (views.py:1181-1222).                  *)

\* Mutant of update_progress: the stage is written to 'progress'.
update_progress_marker(session, request_id, status) ==
    IF request_id \in DOMAIN session
    THEN DictSet(session, request_id, [session[request_id] EXCEPT !.progress = status])
    ELSE session

\* views.py:1183-1190: update_progress writes the entry's 'status' in the
\* thread's own SessionStore and saves; a failure is logged and swallowed.
update_progress(session, request_id, status) ==
    IF request_id \in DOMAIN session
    THEN DictSet(session, request_id, [session[request_id] EXCEPT !.status = status])
    ELSE session

\* Mutant of StoreResult: the result is stored but the status is left as it was.
StoreResultOnly(session, request_id, result) ==
    DictSet(session, request_id,
            [k \in DOMAIN session[request_id] \cup {"result"} |->
                IF k = "result" THEN result ELSE session[request_id][k]])

\* views.py:1202-1203: the result is stored and the entry marked completed.
StoreResult(session, request_id, result) ==
    DictSet(session, request_id,
            [k \in DOMAIN session[request_id] \cup {"result"} |->
                IF k = "status" THEN "completed"
                ELSE IF k = "result" THEN result
                ELSE session[request_id][k]])

\* views.py:1212-1213: the handler of an exception that left perform_search.
StoreError(session, request_id, message) ==
    DictSet(session, request_id,
            [k \in DOMAIN session[request_id] \cup {"error"} |->
                IF k = "status" THEN "error"
                ELSE IF k = "error" THEN message
                ELSE session[request_id][k]])

\* views.py:1192-1218: what run_search writes once perform_search has ended.
\* A missing key raises KeyError in both handlers, which is only logged.
FinalSession(session, request_id, ending) ==
    IF request_id \notin DOMAIN session THEN session
    ELSE IF ending.kind = "returned" THEN StoreResult(session, request_id, ending.result)
    ELSE StoreError(session, request_id, ending.message)

\* The thread starts and perform_search reports 'step1' (ai_service.py:474-475).
run_search_start(j) ==
    /\ pc[j] = "start"
    /\ LET session == update_progress(cache[j], j, "step1")
       IN /\ cache' = [cache EXCEPT ![j] = session]
          /\ store' = SessionSave(session)
    /\ pc' = [pc EXCEPT ![j] = "call1"]
    /\ UNCHANGED <<environment, command, extraction, messages, audit, llmCalls, launched, quota, response>>

\* perform_search has ended: the audit rows are saved, run_search writes the
\* final state of the entry (views.py:1199-1222) and the thread ends.
run_search_end(j, end) ==
    /\ audit' = [audit EXCEPT ![j] = @ \o end.rows]
    /\ store' = SessionSave(FinalSession(cache[j], j, end.ending))
    /\ cache' = [cache EXCEPT ![j] = EmptyDict]
    /\ pc' = [pc EXCEPT ![j] = "done"]

\* Mutant of ProceedsToStep2: every parsed reply is taken to step 2.
ProceedsWhenParsed(outcome, text) == Step1Parsed(1, outcome)

\* ai_service.py:535-538: the search goes on to step 2 when the reply was
\* parsed and its services_to_check is not empty.
ProceedsToStep2(outcome, text) ==
    /\ Step1Parsed(1, outcome)
    /\ services_to_check(Step1Data(outcome, text)) # << >>

\* Step 1 (ai_service.py:477-566): catalogue queries, the LLM call, the
\* parse, and either the end of the search or the move to step 2, which is
\* reported through update_progress('step2').
perform_search_step1(j, outcome, saved1, saved2) ==
    /\ pc[j] = "call1"
    /\ llmCalls' = [llmCalls EXCEPT ![j] =
                        @ + (IF CallsLLM(outcome) THEN _call_openai_api(outcome) ELSE 0)]
    /\ messages' = [messages EXCEPT ![j] =
                        IF CallsLLM(outcome)
                        THEN Append(@, Step1Messages(cache[j][j].user_input))
                        ELSE @]
    /\ IF ProceedsToStep2(outcome, prose)
       THEN /\ LET session == update_progress(cache[j], j, "step2")
               IN /\ cache' = [cache EXCEPT ![j] = session]
                  /\ store' = SessionSave(session)
            /\ pc' = [pc EXCEPT ![j] = "call2"]
            /\ UNCHANGED audit
       ELSE run_search_end(j, EndOfSearch(1, outcome, prose, saved1, saved2))
    /\ UNCHANGED <<environment, command, extraction, launched, quota, response>>

\* Step 2 (ai_service.py:566-652): detail fetch, the second LLM call, the
\* parse and the end of the search.
perform_search_step2(j, outcome, saved1, saved2) ==
    /\ pc[j] = "call2"
    /\ llmCalls' = [llmCalls EXCEPT ![j] = @ + _call_openai_api(outcome)]
    /\ messages' = [messages EXCEPT ![j] =
                        Append(@, Step2Messages(cache[j][j].user_input, prose))]
    /\ run_search_end(j, EndOfSearch(2, outcome, prose, saved1, saved2))
    /\ UNCHANGED <<environment, command, extraction, launched, quota, response>>

----------------------------------------------------------------------------
(* Specifications.                                                         *)

\* The requests of the caller: each endpoint with its own method and, once,
\* with the wrong one.
Requests ==
    \/ \E body \in Bodies : ai_search_initiate("POST", body)
    \/ ai_search_initiate("GET", <<"json">>)
    \/ \E id \in JobIds : ai_search_status("GET", id)
    \/ ai_search_status("POST", 1)
    \/ \E id \in JobIds : ai_search_clear("POST", id)
    \/ ai_search_clear("GET", 1)

\* Concurrent jobs of one session.  The steps end in one failure or success
\* of each path, and the audit table is up or down for the whole step.
Next ==
    \/ Requests
    \/ \E j \in JobIds : run_search_start(j)
    \/ \E j \in JobIds, outcome \in {"timeout", "none", "cands"}, saved \in BOOLEAN :
            perform_search_step1(j, outcome, saved, saved)
    \/ \E j \in JobIds, outcome \in {"malformed", "ok"}, saved \in BOOLEAN :
            perform_search_step2(j, outcome, saved, saved)

Spec == Init /\ [][Next]_vars

\* One job, every outcome of every step, every outcome of every audit save.
NextOneJob ==
    \/ Requests
    \/ \E j \in JobIds : run_search_start(j)
    \/ \E j \in JobIds, outcome \in Step1Outcomes, saved1, saved2 \in BOOLEAN :
            perform_search_step1(j, outcome, saved1, saved2)
    \/ \E j \in JobIds, outcome \in Step2Outcomes, saved1, saved2 \in BOOLEAN :
            perform_search_step2(j, outcome, saved1, saved2)

SpecOneJob == InitOneJob /\ [][NextOneJob]_vars

\* One job per run, with the caller's text and the LLM's text varied: the
\* LLM writes one of two texts in the run, the caller posts one of two.
Prose == { DefaultProse, "Sorry, nothing in the catalogue fits." }

TextInputs == { <<"a">>, <<" ", "b">> }

InitTexts ==
    /\ aiEnabled = TRUE
    /\ settings = DefaultSettings
    /\ authenticated = TRUE
    /\ catalogue = DefaultCatalogue
    /\ prose \in Prose
    /\ NoJobs(1)
    /\ command = NotInvoked
    /\ extraction = NotExtracting

NextTexts ==
    \/ \E user_input \in TextInputs : ai_search_initiate("POST", <<"json", user_input>>)
    \/ \E id \in JobIds : ai_search_status("GET", id)
    \/ \E id \in JobIds : ai_search_clear("POST", id)
    \/ \E j \in JobIds : run_search_start(j)
    \/ \E j \in JobIds, outcome \in Step1Outcomes, saved1, saved2 \in BOOLEAN :
            perform_search_step1(j, outcome, saved1, saved2)
    \/ \E j \in JobIds, outcome \in Step2Outcomes, saved1, saved2 \in BOOLEAN :
            perform_search_step2(j, outcome, saved1, saved2)

SpecTexts == InitTexts /\ [][NextTexts]_vars

\* One job per run, with the visibility settings and the catalogue varied:
\* no listed revision; one with every field filled; one with the optional
\* fields empty; two revisions filled differently.
Catalogues ==
    { << >>,
      << Revision(RevisionKeys[1], RevisionFields) >>,
      << Revision(RevisionKeys[1], CoreFields \cup InternalFields) >>,
      << Revision(RevisionKeys[1], RevisionFields \ {"options", "contact"}),
         Revision(RevisionKeys[2],
                  CoreFields \cup InternalFields \cup {"requirements", "listed_until"}) >> }

InitDetails ==
    /\ aiEnabled = TRUE
    /\ \E fields \in SUBSET OptionalFields : settings = Settings(TRUE, TRUE, fields)
    /\ authenticated = TRUE
    /\ catalogue \in Catalogues
    /\ prose = DefaultProse
    /\ NoJobs(1)
    /\ command = NotInvoked
    /\ extraction = NotExtracting

NextDetails ==
    \/ ai_search_initiate("POST", <<"json", <<"a">>>>)
    \/ \E id \in JobIds : ai_search_status("GET", id)
    \/ \E j \in JobIds : run_search_start(j)
    \/ \E j \in JobIds, outcome \in {"none", "cands"} :
            perform_search_step1(j, outcome, TRUE, TRUE)
    \/ \E j \in JobIds, outcome \in {"timeout", "ok"} :
            perform_search_step2(j, outcome, TRUE, TRUE)

SpecDetails == InitDetails /\ [][NextDetails]_vars

\* One job per run, with the login settings and the caller varied.
InitAccess ==
    /\ aiEnabled \in BOOLEAN
    /\ \E ai_login \in BOOLEAN, catalogue_login \in BOOLEAN :
          settings = Settings(ai_login, catalogue_login, OptionalFields)
    /\ authenticated \in BOOLEAN
    /\ catalogue = DefaultCatalogue
    /\ prose = DefaultProse
    /\ NoJobs(1)
    /\ command = NotInvoked
    /\ extraction = NotExtracting

NextAccess ==
    \/ ai_search_view
    \/ Requests
    \/ \E j \in JobIds : run_search_start(j)
    \/ \E j \in JobIds, outcome \in {"timeout", "none", "cands"} :
            perform_search_step1(j, outcome, TRUE, TRUE)
    \/ \E j \in JobIds : perform_search_step2(j, "ok", TRUE, TRUE)

SpecAccess == InitAccess /\ [][NextAccess]_vars

\* One run of the diagnostic command, the web application idle: the
\* settings, the --model option and the catalogue varied, every reply of
\* every request.
InitCommand ==
    /\ \E enabled \in BOOLEAN, api_url \in {"", "https://api.example.org/v1"},
          api_key \in {"", "key"}, AI_SEARCH_MODEL \in ModelNames \cup {""},
          model_override \in ModelNames \cup {""} :
          /\ command = Invoked(enabled, api_url, api_key, AI_SEARCH_MODEL, model_override)
          /\ aiEnabled = enabled
    /\ settings = DefaultSettings
    /\ authenticated = TRUE
    /\ catalogue \in { << >>, DefaultCatalogue }
    /\ prose = DefaultProse
    /\ NoJobs(0)
    /\ extraction = NotExtracting

NextCommand ==
    \/ check_configuration
    \/ \E reply \in {HttpReply(200, NoBody), HttpReply(401, NoBody)}
                    \cup { Raised(e) : e \in RequestExceptions } : check_network(reply)
    \/ \E reply \in ModelsReplies : check_models(reply)
    \/ \E reply \in ChatReplies : check_chat(reply)
    \/ \E found \in BOOLEAN : check_prompts(found)
    \/ \E end \in SearchEnds, saved1, saved2 \in BOOLEAN :
            check_end_to_end(end, saved1, saved2)
    \/ summary

SpecCommand == InitCommand /\ [][NextCommand]_vars

\* The extractor alone, the web application and the command idle: every
\* payload of the model inside every wrapping.
InitExtract ==
    /\ aiEnabled = TRUE
    /\ settings = DefaultSettings
    /\ authenticated = TRUE
    /\ catalogue = DefaultCatalogue
    /\ prose = DefaultProse
    /\ NoJobs(0)
    /\ command = NotInvoked
    /\ \E payload \in Payloads, wrappers \in Wrappings :
          extraction = Received(payload, wrappers)

NextExtract ==
    \/ Extract
    \/ ExtractAgain
    \/ ParseStep1Reply

SpecExtract == InitExtract /\ [][NextExtract]_vars


----------------------------------------------------------------------------
(* Vocabulary of the properties.                                           *)

NonTerminal == { "initiated", "step1", "step2" }
Terminal == { "completed", "error" }

\* Stage order: initiated < step 1 < step 2 < terminal.
Rank(status) ==
    CASE status = "initiated" -> 0
      [] status = "step1"     -> 1
      [] status = "step2"     -> 2
      [] OTHER                -> 3

\* This step is a step of job j's background thread.
ThreadStep(j) == pc[j] # "unborn" /\ pc'[j] # pc[j]

Blank(s) == \A i \in 1..Len(s) : s[i] = " "

\* u is s without its leading and trailing blanks.
Trimmed(u, s) ==
    /\ u # <<>> => (u[1] # " " /\ u[Len(u)] # " ")
    /\ \E a \in 0..Len(s) :
          /\ a + Len(u) <= Len(s)
          /\ SubSeq(s, a + 1, a + Len(u)) = u
          /\ \A i \in 1..Len(s) : (i <= a \/ i > a + Len(u)) => s[i] = " "

\* The posted 'user_input' of a JSON body ('' when the key is missing).
Posted(body) == IF Len(body) = 2 THEN body[2] ELSE <<>>

\* What a status request for id would answer in the current state.
Answer(id) == StatusResponse(store, "GET", id)

----------------------------------------------------------------------------
(* Launch.                                                                 *)

\* C1: with AI search enabled, a launch whose input is not blank creates the
\* entry of a fresh id with status 'initiated' and the trimmed input, starts
\* the thread of that job and of no other, sends no LLM request, and answers
\* 200 with the id while the entry is still 'initiated'.
C1_LaunchReturnsAtOnce ==
    [][\A body \in Bodies :
         (/\ aiEnabled
          /\ body[1] = "json"
          /\ ~Blank(Posted(body))
          /\ ai_search_initiate("POST", body))
         => LET id == launched + 1 IN
            /\ id \notin DOMAIN store
            /\ id \in DOMAIN store'
            /\ DOMAIN store'[id] = {"status", "user_input", "progress"}
            /\ store'[id].status = "initiated"
            /\ Trimmed(store'[id].user_input, Posted(body))
            /\ \A k \in DOMAIN store : k \in DOMAIN store' /\ store'[k] = store[k]
            /\ pc[id] = "unborn" /\ pc'[id] = "start"
            /\ \A k \in JobIds \ {id} : pc'[k] = pc[k]
            /\ llmCalls' = llmCalls
            /\ audit' = audit
            /\ response' = JsonResponse("initiate", 200, id, <<>>)]_vars

\* C1 witness: the id has been returned, the job is still 'initiated' or on
\* step 1, and no LLM request has been sent for it.
C1_Witness ==
    /\ response.op = "initiate" /\ response.code = 200
    /\ response.id \in DOMAIN store
    /\ store[response.id].status \in {"initiated", "step1"}
    /\ pc[response.id] \in {"start", "call1"}
    /\ llmCalls[response.id] = 0

\* C2: a launch whose input is empty or blank (or missing) answers 400 and
\* changes nothing: no entry, no thread, no LLM request, no audit row.
C2_EmptyInputRejected ==
    [][\A body \in Bodies :
         (/\ aiEnabled
          /\ body[1] = "json"
          /\ Blank(Posted(body))
          /\ ai_search_initiate("POST", body))
         => /\ response'.op = "initiate" /\ response'.code = 400
            /\ UNCHANGED <<store, cache, pc, audit, llmCalls, launched>>]_vars

\* C2 witness: a blank launch was rejected while a job of the session runs.
C2_Witness ==
    /\ response.op = "initiate" /\ response.code = 400
    /\ \E j \in JobIds : pc[j] = "call1" /\ j \in DOMAIN store

----------------------------------------------------------------------------
(* Failures of a step.                                                     *)

Step1Failures == { "timeout", "request", "catalogue", "malformed" }
Step2Failures == { "timeout", "request", "malformed" }

\* Job j's entry is stored as failed ('error' is the status the code has for
\* it) with the message in 'error', and an audit row flags the error.
StoredAsFailed(j, message) ==
    /\ j \in DOMAIN store'
    /\ store'[j].status = "error"
    /\ "error" \in DOMAIN store'[j]
    /\ store'[j].error = message
    /\ \E i \in 1..Len(audit'[j]) : audit'[j][i].error_occurred

StoredAfterException(j, message, saved) ==
    /\ j \in DOMAIN store'
    /\ IF saved
       THEN /\ store'[j].status = "completed"
            /\ DOMAIN store'[j] = {"status", "user_input", "progress", "result"}
            /\ store'[j].result = [success |-> FALSE, error |-> message]
            /\ Len(audit'[j]) = Len(audit[j]) + 1
            /\ audit'[j][Len(audit'[j])].error_occurred
            /\ audit'[j][Len(audit'[j])].error_message = message
       ELSE /\ store'[j].status = "error"
            /\ DOMAIN store'[j] = {"status", "user_input", "progress", "error"}
            /\ store'[j].error = DbError
            /\ audit'[j] = audit[j]
    /\ pc'[j] = "done"

----------------------------------------------------------------------------
(* Jobs of one session side by side.                                       *)

\* Every thread that has ended saved its audit row: no save was rejected.
AuditTableUp == \A k \in JobIds : pc[k] = "done" => Len(audit[k]) = 1

\* C4 as claimed: once an entry is 'completed' or 'error', no step of any
\* thread changes or removes it (stated for the runs in which the audit
\* table is up).
C4_TerminalStable ==
    [][\A j \in DOMAIN store :
         (/\ AuditTableUp
          /\ store[j].status \in Terminal
          /\ \E k \in JobIds : ThreadStep(k))
         => (j \in DOMAIN store' /\ store'[j] = store[j])]_vars

\* C5 as claimed: of two successive status requests for the same id that
\* both find the entry, the later one never reports an earlier stage.
C5_PollsMonotonic ==
    [][\A id \in JobIds :
         (/\ response.op = "status" /\ response.code = 200 /\ response.id = id
          /\ ai_search_status("GET", id)
          /\ response'.code = 200)
         => Rank(response'.body.status) >= Rank(response.body.status)]_vars

\* C6 as claimed: a step of job a's thread leaves the stored entry of every
\* other job as it was: not removed, not created, not changed.
C6_JobsIndependent ==
    [][\A a \in JobIds, b \in JobIds :
         (a # b /\ ThreadStep(a))
         => /\ (b \in DOMAIN store') = (b \in DOMAIN store)
            /\ b \in DOMAIN store => store'[b] = store[b]]_vars

\* C7 as claimed: after Clear(id) was acknowledged, and until the caller's
\* next request, the entry of id is absent whatever the thread does.
C7_ClearedStaysAbsent ==
    (response.op = "clear" /\ response.code = 200) => response.id \notin DOMAIN store

\* C8 as claimed: once every started thread has ended, no stored entry is
\* left in 'initiated', 'step1' or 'step2' (stated for the runs in which the
\* audit table is up).
C8_EndedMeansTerminal ==
    (AuditTableUp /\ \A j \in JobIds : pc[j] \in {"unborn", "done"})
    => \A j \in DOMAIN store : store[j].status \in Terminal

----------------------------------------------------------------------------
(* Status requests.                                                        *)

\* The keys a body or an entry may carry for its status.
WellShaped(d) ==
    /\ "result" \in DOMAIN d => d.status = "completed"
    /\ "error" \in DOMAIN d => d.status = "error"

\* C9: every stored entry, the answer a status request would give for it,
\* and the last answer given carry 'result' only with status 'completed' and
\* 'error' only with status 'error' (the code's failed status); the answer
\* for a non-terminal entry has 'status' and 'progress' and nothing else.
C9_ResultAndErrorOnlyWhenTerminal ==
    /\ \A j \in DOMAIN store :
          /\ WellShaped(store[j])
          /\ Answer(j).code = 200
          /\ WellShaped(Answer(j).body)
          /\ store[j].status \in NonTerminal
             => DOMAIN Answer(j).body = {"status", "progress"}
    /\ (response.op = "status" /\ response.code = 200)
       => /\ WellShaped(response.body)
          /\ response.body.status \in NonTerminal
             => DOMAIN response.body = {"status", "progress"}

\* C9 witness: one job is stored with an error, another with a result, and
\* the last status answer carried the error.
C9_Witness ==
    /\ \E j \in DOMAIN store : "result" \in DOMAIN store[j]
    /\ \E j \in DOMAIN store : "error" \in DOMAIN store[j]
    /\ response.op = "status" /\ response.code = 200
    /\ "error" \in DOMAIN response.body

\* C10: a status request changes no entry and nothing else but the response;
\* its answer is the answer of the state it leaves; and no step other than a
\* thread step or a Clear changes the answer for an id already launched. So
\* two status requests for an id with no thread step and no Clear between
\* them answer the same.
C10_PollReadOnly ==
    [][/\ \A id \in JobIds :
            ai_search_status("GET", id)
            => /\ UNCHANGED <<store, cache, pc, audit, llmCalls, launched>>
               /\ response' = Answer(id)'
       /\ ((\A j \in JobIds : pc'[j] = pc[j] \/ pc[j] = "unborn")
           /\ ~ \E id \in JobIds : ai_search_clear("POST", id))
          => \A id \in 1..launched : Answer(id)' = Answer(id)]_vars

\* C10 witness: a status request was answered while the job is on step 2, and
\* the answer is still the one a second request would get.
C10_Witness ==
    /\ response.op = "status" /\ response.code = 200
    /\ pc[response.id] = "call2"
    /\ response = Answer(response.id)
    /\ response.body.status = "step2"

----------------------------------------------------------------------------
(* Status and Clear for ids without an entry.                              *)

\* C11: a status request (GET) for any id answers 404 exactly when the
\* session holds no entry for the id (never launched, or cleared) and 200
\* otherwise; it never answers 500, and the answer names the id asked for.
C11_NotFoundIffAbsent ==
    [][\A id \in JobIds :
         ai_search_status("GET", id)
         => /\ response'.op = "status" /\ response'.id = id
            /\ response'.code \in {200, 404}
            /\ (response'.code = 404) <=> (id \notin DOMAIN store)
            /\ id > launched => response'.code = 404]_vars

\* C11 witness: the last status request was for a job that ran to its end
\* and was then cleared; it answered 404 while another job is still stored.
C11_Witness ==
    /\ response.op = "status" /\ response.code = 404
    /\ pc[response.id] = "done"
    /\ response.id \notin DOMAIN store
    /\ store # EmptyDict

\* C12: Clear (POST) for any id (stored, cleared before or never launched)
\* answers 200; afterwards the id has no entry; every other entry is
\* as it was; clearing an id without an entry leaves the store unchanged, so
\* a second Clear changes nothing.
C12_ClearTotalIdempotent ==
    [][\A id \in JobIds :
         ai_search_clear("POST", id)
         => /\ response' = JsonResponse("clear", 200, id, <<>>)
            /\ id \notin DOMAIN store'
            /\ DOMAIN store' = DOMAIN store \ {id}
            /\ \A k \in DOMAIN store' : store'[k] = store[k]
            /\ id \notin DOMAIN store => store' = store
            /\ SessionSave(ClearedSession(store', id)) = store'
            /\ UNCHANGED <<cache, pc, audit, llmCalls, launched>>]_vars

\* C12 witness: Clear was acknowledged for an id that was never launched,
\* while the entry of a launched job is stored.
C12_Witness ==
    /\ response.op = "clear" /\ response.code = 200
    /\ response.id > launched
    /\ launched \in DOMAIN store

----------------------------------------------------------------------------
(* The paths through perform_search.                                       *)

\* Job j has posted a step-2 prompt, for which the details were fetched.
Step2Entered(j) ==
    \E i \in 1..Len(messages[j]) :
        \E n \in 1..Len(messages[j][i]) :
            /\ messages[j][i][n].role = "user"
            /\ messages[j][i][n].content.template = "step2"

\* C13: when the parsed step-1 reply has an empty or no services_to_check
\* (and the audit table accepts the record), the job ends 'completed' with a
\* successful result with step1_only, the reply's note as message and its
\* relatedness flag (false when the reply has none); one LLM request was
\* posted, no details were fetched and no step-2 prompt posted; the one
\* audit row has step2_needed = false and error_occurred = false; and a
\* thread that has ended posts, fetches and logs nothing more.
C13_NoCandidatesEndsAfterStep1 ==
    [][\A j \in JobIds :
         /\ \A outcome \in {"none", "missing"}, saved2 \in BOOLEAN :
               perform_search_step1(j, outcome, TRUE, saved2)
               => /\ pc'[j] = "done"
                  /\ store'[j].status = "completed"
                  /\ store'[j].result.success
                  /\ store'[j].result.step1_only
                  /\ ~store'[j].result.step2_completed
                  /\ store'[j].result.message = prose
                  /\ store'[j].result.is_it_related = (outcome = "none")
                  /\ llmCalls'[j] = 1
                  /\ Len(messages'[j]) = 1
                  /\ ~Step2Entered(j)'
                  /\ Len(audit'[j]) = 1
                  /\ ~audit'[j][1].step2_needed
                  /\ ~audit'[j][1].error_occurred
                  /\ audit'[j][1].step1_completed
                  /\ audit'[j][1].services_requested = Some(<< >>)
         /\ pc[j] = "done"
            => /\ pc'[j] = "done"
               /\ llmCalls'[j] = llmCalls[j]
               /\ messages'[j] = messages[j]
               /\ audit'[j] = audit[j]]_vars

\* C13 witness: a job whose reply had no services_to_check has ended after
\* one LLM request, with a step-1-only result and a clean audit row.
C13_Witness ==
    /\ pc[1] = "done"
    /\ 1 \in DOMAIN store
    /\ store[1].status = "completed"
    /\ store[1].result.success
    /\ store[1].result.step1_only
    /\ ~store[1].result.is_it_related
    /\ store[1].result.message = prose
    /\ llmCalls[1] = 1
    /\ ~Step2Entered(1)
    /\ Len(audit[1]) = 1
    /\ ~audit[1][1].step2_needed /\ ~audit[1][1].error_occurred

\* C14 as claimed: every thread that has ended has written exactly one
\* audit row.
C14_Original == \A j \in JobIds : pc[j] = "done" => Len(audit[j]) = 1

\* C14 amended: a job has no audit row before its thread has ended and never
\* more than one; every end of the thread (after step 1 without candidates,
\* after step 2, or by a failure of either step) leaves exactly one row when
\* the audit table accepts the record, also when it rejected the record of a
\* successful search and accepts the one saved by the exception handler;
\* when the table rejects the save of the exception handler no row is
\* written; and an ended thread writes no further row.
C14_OneAuditRecordPerJob ==
    [][\A j \in JobIds :
         /\ Len(audit'[j]) <= 1
         /\ pc'[j] # "done" => audit'[j] = << >>
         /\ pc[j] = "done" => audit'[j] = audit[j]
         /\ \A outcome \in Step1Outcomes \ {"cands"}, saved2 \in BOOLEAN :
               perform_search_step1(j, outcome, TRUE, saved2)
               => (pc'[j] = "done" /\ Len(audit'[j]) = 1)
         /\ \A outcome \in Step2Outcomes, saved2 \in BOOLEAN :
               perform_search_step2(j, outcome, TRUE, saved2)
               => (pc'[j] = "done" /\ Len(audit'[j]) = 1)
         /\ \A outcome \in {"none", "missing"} :
               perform_search_step1(j, outcome, FALSE, TRUE)
               => (pc'[j] = "done" /\ Len(audit'[j]) = 1)
         /\ perform_search_step2(j, "ok", FALSE, TRUE)
            => (pc'[j] = "done" /\ Len(audit'[j]) = 1)
         /\ \A outcome \in Step1Failures, saved2 \in BOOLEAN :
               perform_search_step1(j, outcome, FALSE, saved2)
               => (pc'[j] = "done" /\ audit'[j] = << >>)
         /\ \A outcome \in Step2Failures, saved2 \in BOOLEAN :
               perform_search_step2(j, outcome, FALSE, saved2)
               => (pc'[j] = "done" /\ audit'[j] = << >>)
         /\ \A outcome \in {"none", "missing"} :
               perform_search_step1(j, outcome, FALSE, FALSE)
               => (pc'[j] = "done" /\ audit'[j] = << >>)
         /\ perform_search_step2(j, "ok", FALSE, FALSE)
            => (pc'[j] = "done" /\ audit'[j] = << >>)]_vars

\* C14 witness: a job went through both steps and ended with one audit row
\* that flags no error.
C14_Witness ==
    /\ pc[1] = "done"
    /\ llmCalls[1] = 2
    /\ Len(audit[1]) = 1
    /\ audit[1][1].step2_needed
    /\ ~audit[1][1].error_occurred

----------------------------------------------------------------------------
(* What the audit rows hold.                                               *)

\* The texts of a run as strings: what the LLM writes, and what the caller
\* may post (each input here is one character after trimming).
RunTexts == Prose \cup { Strip(user_input)[1] : user_input \in TextInputs }

\* The values of the text and list fields of an audit row.
RowValues(row) ==
    { row.error_message }
    \cup UNION { { list[i] : i \in 1..Len(list) } :
                    list \in { row.services_requested[n] :
                                  n \in 1..Len(row.services_requested) }
                         \cup { row.services_recommended[n] :
                                  n \in 1..Len(row.services_recommended) } }
    \cup { row.tokens_used_step1[n] : n \in 1..Len(row.tokens_used_step1) }
    \cup { row.tokens_used_step2[n] : n \in 1..Len(row.tokens_used_step2) }

\* C16: no audit row holds the caller's text or the LLM's text in its error
\* message, its key lists or its token counts, whichever of the texts the
\* run has; and the rows a thread writes at its end are those it would
\* write, with the same outcome, for any other text of the LLM (the caller's
\* text is no input of the record at all).
C16_AuditHoldsNoText ==
    [][\A j \in JobIds :
         /\ \A i \in 1..Len(audit'[j]) : RowValues(audit'[j][i]) \cap RunTexts = {}
         /\ \A saved1 \in BOOLEAN, saved2 \in BOOLEAN, text \in Prose :
               /\ \A outcome \in Step1Outcomes \ {"cands"} :
                     perform_search_step1(j, outcome, saved1, saved2)
                     => audit'[j] = audit[j] \o EndOfSearch(1, outcome, text, saved1, saved2).rows
               /\ \A outcome \in Step2Outcomes :
                     perform_search_step2(j, outcome, saved1, saved2)
                     => audit'[j] = audit[j] \o EndOfSearch(2, outcome, text, saved1, saved2).rows]_vars

\* C16 witness: with the second text of the LLM and the second text of the
\* caller, a job went through both steps; its result carries the LLM's text,
\* its messages the caller's, and its audit row names the keys.
C16_Witness ==
    /\ prose # DefaultProse
    /\ pc[1] = "done"
    /\ 1 \in DOMAIN store
    /\ store[1].user_input = <<"b">>
    /\ store[1].status = "completed"
    /\ store[1].result.success
    /\ ~store[1].result.step1_only
    /\ store[1].result.overall_assessment = prose
    /\ messages[1][2][3].content.user_input = <<"b">>
    /\ Len(audit[1]) = 1
    /\ audit[1][1].services_requested = Some(<< ServiceKey >>)
    /\ audit[1][1].services_recommended = Some(<< RevisionKeys[1] >>)

----------------------------------------------------------------------------
(* What leaves the system.                                                 *)

\* The fields that may be sent under the current settings: the always-public
\* ones (key, name, category, purpose, description, version, listing window,
\* contact, url) and the optional ones whose setting is on.
AllowedFields ==
    CoreFields \cup PublicIfSetFields
    \cup { f \in OptionalFields : settings.SERVICECATALOGUE_FIELD[f] }

\* The catalogue lines <<field, value>> of a message's content.
CatalogueLines(content) ==
    IF "lists" \in DOMAIN content THEN content.lists
    ELSE IF "services_details" \in DOMAIN content THEN content.services_details
    ELSE << >>

\* A line shows an allowed field, and its value is not the text of a field
\* that is switched off or internal (a field's text is the field's name).
LineAllowed(line) ==
    /\ line[1] \in AllowedFields
    /\ line[2] \notin RevisionFields \ AllowedFields

\* C17: whatever the catalogue holds and however the visibility settings
\* are set, the details fetched for step 2 have allowed fields only, and
\* every catalogue line of every message posted to the LLM (step-1 prompt,
\* and the three messages of step 2) shows an allowed field with the value
\* of an allowed field.
C17_OnlyAllowedFieldsLeave ==
    /\ \A i \in 1..Len(_get_service_details(<< ServiceKey >>)) :
          LET details == _get_service_details(<< ServiceKey >>)[i] IN
          /\ DOMAIN details \subseteq AllowedFields
          /\ \A f \in DOMAIN details : details[f] = catalogue[i][f]
    /\ \A j \in JobIds : \A i \in 1..Len(messages[j]) :
          \A n \in 1..Len(messages[j][i]) :
             LET lines == CatalogueLines(messages[j][i][n].content) IN
             \A l \in 1..Len(lines) : LineAllowed(lines[l])

\* C17 witness: a step-2 prompt was posted that shows the requirements of a
\* revision whose details and service level are filled but switched off.
C17_Witness ==
    /\ Len(messages[1]) = 2
    /\ catalogue # << >>
    /\ catalogue[1]["details"] # "" /\ ~settings.SERVICECATALOGUE_FIELD["details"]
    /\ catalogue[1]["service_level"] # ""
    /\ ~settings.SERVICECATALOGUE_FIELD["service_level"]
    /\ settings.SERVICECATALOGUE_FIELD["requirements"]
    /\ \E l \in 1..Len(messages[1][2][3].content.services_details) :
          messages[1][2][3].content.services_details[l] = << "requirements", "requirements" >>

----------------------------------------------------------------------------
(* Access.                                                                 *)

\* C18: a request to any of the four endpoints (page, launch, status, clear;
\* any method, body or id) is answered with the redirect to the login page
\* exactly when the caller is not logged in and AI_SEARCH_REQUIRE_LOGIN or
\* SERVICE_CATALOGUE_REQUIRE_LOGIN is on; a refused request creates, reads
\* and clears nothing; a caller the catalogue would refuse is refused here
\* whatever AI_SEARCH_REQUIRE_LOGIN is; and in a run of a refused caller no
\* job ever exists.
C18_LoginRequiredIffEitherSetting ==
    [][/\ (ai_search_view \/ Requests)
          => /\ (response'.code = 302)
                <=> (/\ ~authenticated
                     /\ \/ settings.AI_SEARCH_REQUIRE_LOGIN
                        \/ settings.SERVICE_CATALOGUE_REQUIRE_LOGIN)
             /\ response'.code = 302
                => /\ UNCHANGED <<store, cache, pc, audit, llmCalls, messages, launched>>
                   /\ response'.id = 0 /\ response'.body = <<>>
             /\ (settings.SERVICE_CATALOGUE_REQUIRE_LOGIN /\ ~authenticated)
                => response'.code = 302
       /\ (/\ ~authenticated
           /\ \/ settings.AI_SEARCH_REQUIRE_LOGIN
              \/ settings.SERVICE_CATALOGUE_REQUIRE_LOGIN)
          => /\ store' = EmptyDict /\ launched' = 0
             /\ \A j \in JobIds : pc'[j] = "unborn"]_vars

\* C18 witness: with AI_SEARCH_REQUIRE_LOGIN off and the catalogue's login
\* requirement on, a status request of an anonymous caller was redirected.
C18_Witness ==
    /\ ~settings.AI_SEARCH_REQUIRE_LOGIN
    /\ settings.SERVICE_CATALOGUE_REQUIRE_LOGIN
    /\ ~authenticated
    /\ response.op = "status" /\ response.code = 302

----------------------------------------------------------------------------
(* Progress.                                                               *)

Wanted ==
    IF command.model_override # "" THEN command.model_override
    ELSE command.AI_SEARCH_MODEL

\* The basic configuration of the command's run is complete.
ConfigurationComplete ==
    /\ command.AI_SEARCH_ENABLED
    /\ command.AI_SEARCH_API_URL # ""
    /\ command.AI_SEARCH_API_KEY # ""
    /\ Wanted # ""

\* The models endpoint answered with a listing that has ids, none of them
\* the given model.
MissingFromListing(reply, model) ==
    /\ reply.kind = "response" /\ reply.status_code = 200
    /\ model_ids(reply.body) # << >>
    /\ \A i \in 1..Len(model_ids(reply.body)) : model_ids(reply.body)[i] # model

\* C20: in a run of test_ai_search with a complete basic configuration,
\* (1) the run exits with code 1 whenever the models endpoint answered 401
\* or a non-empty listing that lacks the effective model (the --model
\* option if given, AI_SEARCH_MODEL otherwise); (2) a 404 of the models
\* endpoint leaves all_checks_passed as it was and fails no check; (3) check
\* 10 runs its end-to-end test only if none of the checks 1 to 9 failed, in
\* particular neither of the failures of (1) happened.
C20_DiagnosticExit ==
    /\ [](/\ command.pc = "exited"
          /\ ConfigurationComplete
          /\ \/ MissingFromListing(command.models_response, Wanted)
             \/ /\ command.models_response.kind = "response"
                /\ command.models_response.status_code = 401
          => command.exit_code = Some(1))
    /\ [][/\ command.pc = "check7"
          /\ command'.pc = "check8"
          /\ command'.models_response.kind = "response"
          /\ command'.models_response.status_code = 404
          => /\ command'.all_checks_passed = command.all_checks_passed
             /\ command'.failed = command.failed]_vars
    /\ [](command.end_to_end \in {"no services", "searched"}
          => /\ ConfigurationComplete
             /\ command.failed \cap (1..9) = {}
             /\ ~MissingFromListing(command.models_response, Wanted)
             /\ command.models_response.status_code # 401)

\* C20 witness: a run with AI_SEARCH_MODEL "alpha" and --model "beta" got a
\* listing of "alpha" alone, skipped check 10 and exited with code 1.
C20_Witness ==
    /\ command.pc = "exited"
    /\ command.AI_SEARCH_MODEL = "alpha" /\ command.model_override = "beta"
    /\ command.models_response =
            HttpReply(200, [format |-> "data", entries |-> <<"alpha">>])
    /\ command.failed = {7}
    /\ command.end_to_end = "skipped"
    /\ command.exit_code = Some(1)

----------------------------------------------------------------------------
(* The order of the two steps.                                             *)

\* The stored entry of job j carries the marker of step 2.
MarkedStep2(session, j) == j \in DOMAIN session /\ session[j].status = "step2"

\* C21: within a job, step 2 starts only from the end of a step 1 whose LLM
\* call returned and whose reply was parsed with a non-empty
\* services_to_check: the thread enters step 2 in that step alone, with one
\* LLM request posted so far; a step 1 that ends otherwise (the call failed,
\* the reply was not parsed, services_to_check is empty or missing) ends the
\* thread with no mark of step 2; the marker 'step2' is written on entry
\* alone; and the details are fetched, the step-2 prompt posted and the
\* second LLM request sent only by a thread that has entered step 2.
C21_Step2OnlyAfterStep1 ==
    [][\A j \in JobIds :
         /\ (pc'[j] = "call2" /\ pc[j] # "call2")
            => /\ pc[j] = "call1"
               /\ llmCalls'[j] = 1
               /\ messages'[j] = << Step1Messages(cache[j][j].user_input) >>
               /\ \E outcome \in {"none", "missing", "cands"} :
                     /\ "services_to_check" \in DOMAIN Step1Data(outcome, prose)
                     /\ Step1Data(outcome, prose).services_to_check # << >>
                     /\ \E saved1 \in BOOLEAN, saved2 \in BOOLEAN :
                           perform_search_step1(j, outcome, saved1, saved2)
         /\ \A outcome \in Step1Outcomes, saved1 \in BOOLEAN, saved2 \in BOOLEAN :
               /\ perform_search_step1(j, outcome, saved1, saved2)
               /\ \/ outcome \notin {"none", "missing", "cands"}
                  \/ "services_to_check" \notin DOMAIN Step1Data(outcome, prose)
                  \/ Step1Data(outcome, prose).services_to_check = << >>
               => /\ pc'[j] = "done"
                  /\ ~MarkedStep2(store, j)' /\ ~MarkedStep2(cache[j], j)'
                  /\ ~Step2Entered(j)'
                  /\ llmCalls'[j] <= 1
         /\ \/ MarkedStep2(store, j)' /\ ~MarkedStep2(store, j)
            \/ MarkedStep2(cache[j], j)' /\ ~MarkedStep2(cache[j], j)
            => pc[j] = "call1" /\ pc'[j] = "call2"
         /\ \/ Step2Entered(j)' /\ ~Step2Entered(j)
            \/ llmCalls'[j] > 1 /\ llmCalls'[j] # llmCalls[j]
            => pc[j] = "call2"]_vars

\* C21 witness: a job is in step 2 after one LLM request, its entry marked
\* 'step2', and no step-2 prompt posted yet.
C21_Witness ==
    /\ pc[1] = "call2"
    /\ llmCalls[1] = 1
    /\ MarkedStep2(store, 1)
    /\ ~Step2Entered(1)

\* C22: a job sends at most one LLM request for step 1 and at most one for
\* step 2, two in all; each step of a thread posts at most one request; a
\* step that failed (timeout, transport error or error status, malformed
\* reply, catalogue error) ends the thread; and a thread that has ended
\* posts no further request.
C22_NoRetries ==
    /\ [](\A j \in JobIds :
            /\ llmCalls[j] <= 2
            /\ Len(messages[j]) <= 2
            /\ Len(messages[j]) >= 1 => Len(messages[j][1]) = 1
            /\ Len(messages[j]) = 2 => Len(messages[j][2]) = 3
            /\ pc[j] \in {"unborn", "start", "call1"} => llmCalls[j] = 0
            /\ pc[j] = "call2" => llmCalls[j] = 1)
    /\ [][\A j \in JobIds :
            /\ llmCalls'[j] - llmCalls[j] \in {0, 1}
            /\ Len(messages'[j]) - Len(messages[j]) = llmCalls'[j] - llmCalls[j]
            /\ \A saved1 \in BOOLEAN, saved2 \in BOOLEAN :
                  /\ \A outcome \in {"timeout", "request", "catalogue", "malformed"} :
                        perform_search_step1(j, outcome, saved1, saved2)
                        => pc'[j] = "done" /\ llmCalls'[j] <= 1
                  /\ \A outcome \in {"timeout", "request", "malformed"} :
                        perform_search_step2(j, outcome, saved1, saved2)
                        => pc'[j] = "done" /\ llmCalls'[j] = 2
            /\ pc[j] = "done"
               => /\ pc'[j] = "done"
                  /\ llmCalls'[j] = llmCalls[j]
                  /\ messages'[j] = messages[j]]_vars

\* C22 witness: a job whose step-2 request timed out has ended as a failure
\* after two requests.
C22_Witness ==
    /\ pc[1] = "done"
    /\ llmCalls[1] = 2
    /\ Len(audit[1]) = 1
    /\ audit[1][1].error_occurred
    /\ audit[1][1].error_message = "AI API request timed out"

----------------------------------------------------------------------------
(* The conversations posted to the LLM.                                    *)

\* C23: the step-1 call posts exactly one message, the step-1 prompt with
\* role system; when step 1 yields candidates the step-2 call posts exactly
\* three messages in this order: the step-1 prompt with role system, the
\* step-1 reply as it was received (wrapper included) with role assistant,
\* and the step-2 prompt with role user.
C23_ConversationOfStep2 ==
    [][\A j \in JobIds, saved1 \in BOOLEAN, saved2 \in BOOLEAN :
         /\ \A outcome \in Step1Outcomes \ {"catalogue"} :
               perform_search_step1(j, outcome, saved1, saved2)
               => messages'[j] =
                    << << [role    |-> "system",
                           content |-> Step1Prompt(cache[j][j].user_input)] >> >>
         /\ \A outcome \in Step2Outcomes :
               perform_search_step2(j, outcome, saved1, saved2)
               => /\ Len(messages'[j]) = 2
                  /\ messages'[j][1] = messages[j][1]
                  /\ messages'[j][2] =
                       << [role    |-> "system",
                           content |-> messages[j][1][1].content],
                          [role    |-> "assistant",
                           content |-> [wrapper |-> "code fence", reply |-> "cands",
                                        text |-> prose]],
                          [role    |-> "user",
                           content |-> Step2Prompt(cache[j][j].user_input,
                                                   Step1Data("cands", prose))] >>]_vars

\* C23 witness: a job has posted both conversations, the second with the
\* fenced step-1 reply as its assistant turn.
C23_Witness ==
    /\ Len(messages[1]) = 2
    /\ Len(messages[1][1]) = 1 /\ messages[1][1][1].role = "system"
    /\ Len(messages[1][2]) = 3
    /\ messages[1][2][1] = messages[1][1][1]
    /\ messages[1][2][2].role = "assistant"
    /\ messages[1][2][2].content.wrapper = "code fence"
    /\ messages[1][2][3].role = "user"
    /\ messages[1][2][3].content.template = "step2"
    /\ prose # DefaultProse

----------------------------------------------------------------------------
(* The entries of a step-2 reply.                                          *)

\* The details fetched for step 2 of a job whose step 1 named the service.
FetchedDetails == _get_service_details(services_to_check(Step1Data("cands", prose)))

\* `returned` is `entry` with service_name and service_version of `details`.
GainedFrom(returned, entry, details) ==
    /\ DOMAIN returned = DOMAIN entry \cup {"service_name", "service_version"}
    /\ returned["service_name"] = details["name"]
    /\ returned["service_version"] = details["version"]
    /\ \A f \in DOMAIN entry \ {"service_name", "service_version"} :
          returned[f] = entry[f]

\* An entry of the reply is returned enriched when its key is a key of the
\* fetched details, and as it is otherwise.
ReturnedAsClaimed(returned, entry) ==
    IF /\ "service_key" \in DOMAIN entry
       /\ \E n \in 1..Len(FetchedDetails) : FetchedDetails[n]["key"] = entry["service_key"]
    THEN \E n \in 1..Len(FetchedDetails) :
            /\ FetchedDetails[n]["key"] = entry["service_key"]
            /\ GainedFrom(returned, entry, FetchedDetails[n])
    ELSE returned = entry

\* C24: when a step-2 reply is parsed and every recommended entry has a
\* service_key (and the audit table accepts the record), the job ends
\* 'completed' with a successful result in which every entry of
\* recommended_services and of also_checked stands in its place, with
\* service_name and service_version of the fetched revision when its
\* service_key is a key of the fetched details, and exactly as the LLM
\* produced it when the key is not among them.
C24_Enrichment ==
    [][\A j \in JobIds, saved2 \in BOOLEAN :
         \A outcome \in {"ok", "unlisted", "keyless_also"} :
            perform_search_step2(j, outcome, TRUE, saved2)
            => LET reply == Step2Data(outcome, prose)
                   result == store'[j].result
               IN  /\ store'[j].status = "completed"
                   /\ result.success
                   /\ Len(result.recommended_services) = Len(reply.recommended_services)
                   /\ \A i \in 1..Len(reply.recommended_services) :
                         ReturnedAsClaimed(result.recommended_services[i],
                                           reply.recommended_services[i])
                   /\ Len(result.also_checked) = Len(reply.also_checked)
                   /\ \A i \in 1..Len(reply.also_checked) :
                         ReturnedAsClaimed(result.also_checked[i], reply.also_checked[i])
                   /\ Len(audit'[j]) = 1 /\ ~audit'[j][1].error_occurred]_vars

\* C24 witness: a job has ended 'completed' whose first recommendation was
\* enriched from the listed revision and whose second, with a key that was
\* not fetched, is as the LLM wrote it.
C24_Witness ==
    /\ pc[1] = "done"
    /\ 1 \in DOMAIN store
    /\ store[1].status = "completed"
    /\ store[1].result.success
    /\ ~store[1].result.step1_only
    /\ Len(store[1].result.recommended_services) = 2
    /\ store[1].result.recommended_services[1] =
            [service_key |-> RevisionKeys[1], reason |-> prose,
             service_name |-> "name", service_version |-> "version"]
    /\ store[1].result.recommended_services[2] =
            [service_key |-> UnlistedKeys[1], reason |-> prose]
    /\ store[1].result.also_checked[1] =
            [service_key |-> UnlistedKeys[2], reason |-> prose]

\* C29: a parsed step-2 reply with an entry without service_key (the audit
\* table accepting the record): in recommended_services it fails the job,
\* which ends with the error result of the KeyError and nothing of the
\* reply, its audit row having error_occurred and no recommended keys; in
\* also_checked the entry is returned as it is in a successful result, and
\* the audit row has no error.
C29_MissingKeyAsymmetry ==
    [][\A j \in JobIds, saved2 \in BOOLEAN :
         /\ perform_search_step2(j, "keyless_recommended", TRUE, saved2)
            => /\ pc'[j] = "done"
               /\ store'[j].status = "completed"
               /\ store'[j].result = [success |-> FALSE, error |-> "'service_key'"]
               /\ Len(audit'[j]) = 1
               /\ audit'[j][1].error_occurred
               /\ audit'[j][1].error_message = "'service_key'"
               /\ audit'[j][1].services_recommended = None
         /\ perform_search_step2(j, "keyless_also", TRUE, saved2)
            => /\ pc'[j] = "done"
               /\ store'[j].status = "completed"
               /\ store'[j].result.success
               /\ store'[j].result.step2_completed
               /\ Len(store'[j].result.recommended_services) = 1
               /\ store'[j].result.also_checked = << [reason |-> prose] >>
               /\ Len(audit'[j]) = 1
               /\ ~audit'[j][1].error_occurred
               /\ audit'[j][1].services_recommended = Some(<< RevisionKeys[1] >>)]_vars

\* C29 witness: a job whose step-2 reply recommended an entry without
\* service_key has ended with the error of the KeyError, after two LLM
\* requests.
C29_Witness ==
    /\ pc[1] = "done"
    /\ llmCalls[1] = 2
    /\ 1 \in DOMAIN store
    /\ store[1].status = "completed"
    /\ store[1].result = [success |-> FALSE, error |-> "'service_key'"]
    /\ Len(audit[1]) = 1
    /\ audit[1][1].error_occurred
    /\ audit[1][1].step2_needed

----------------------------------------------------------------------------
(* The step flags of the audit record.                                     *)

\* The LLM call of the step returned a reply.
CallReturned(outcome) == outcome \notin {"timeout", "request", "catalogue"}

\* C28: in every audit row a search writes, step1_completed is true exactly
\* when the step-1 LLM call returned a reply (the search ended in step 1
\* with a reply, or went on to step 2); step2_needed is true exactly when
\* step 1 gave a non-empty candidate list, that is when the search went on
\* to step 2; tokens_used_step2 is set only if step2_needed is true and the
\* step-2 call returned; and a step-1 reply that is not parsed leaves a row
\* with step1_completed and error_occurred both true.
C28_AuditFlagsFollowCalls ==
    [][\A j \in JobIds, saved1 \in BOOLEAN, saved2 \in BOOLEAN :
         /\ \A outcome \in Step1Outcomes \ {"cands"} :
               perform_search_step1(j, outcome, saved1, saved2)
               => /\ \A n \in 1..Len(audit'[j]) :
                        /\ audit'[j][n].step1_completed = CallReturned(outcome)
                        /\ ~audit'[j][n].step2_needed
                        /\ audit'[j][n].tokens_used_step2 = None
                  /\ (outcome = "malformed" /\ saved1)
                     => /\ Len(audit'[j]) = 1
                        /\ audit'[j][1].step1_completed
                        /\ audit'[j][1].error_occurred
         /\ \A outcome \in Step2Outcomes :
               perform_search_step2(j, outcome, saved1, saved2)
               => \A n \in 1..Len(audit'[j]) :
                     /\ audit'[j][n].step1_completed
                     /\ audit'[j][n].step2_needed
                     /\ audit'[j][n].services_requested # None
                     /\ audit'[j][n].services_requested # Some(<< >>)
                     /\ audit'[j][n].tokens_used_step2 # None => CallReturned(outcome)]_vars

\* C28 witness: a job whose step-1 reply was not JSON has ended with a row
\* that has step1_completed and error_occurred, and no step 2.
C28_Witness ==
    /\ pc[1] = "done"
    /\ llmCalls[1] = 1
    /\ Len(audit[1]) = 1
    /\ audit[1][1].step1_completed
    /\ audit[1][1].error_occurred
    /\ ~audit[1][1].step2_needed
    /\ audit[1][1].tokens_used_step2 = None
    /\ audit[1][1].services_requested = None

----------------------------------------------------------------------------
(* Claims about the response extractor, checked under SpecExtract.         *)

\* Does the text hold a complete reasoning block?
HasThinkBlock(s) ==
    \E i, k \in 1..Len(s) :
        /\ MatchAt(s, ThinkOpen, i)
        /\ MatchAt(s, ThinkClose, k)
        /\ k >= i + Len(ThinkOpen)

StartsWithFence(s) == Len(s) >= 3 /\ \A i \in 1..3 : s[i] = Backtick

\* C25 as stated: for every input text the extractor applied to its own
\* output returns that output.
C25_Original ==
    extraction.pc = "twice" => extraction.second = extraction.first

\* C25: the extractor applied to its own output returns that output
\* whenever the output neither starts with a triple backtick nor holds a
\* complete reasoning block; this covers every reply from which a span of
\* braces or brackets was extracted out of fences and reasoning blocks.
C25_IdempotentOnUnwrappedOutput ==
    (/\ extraction.pc = "twice"
     /\ ~StartsWithFence(extraction.first)
     /\ ~HasThinkBlock(extraction.first))
    => extraction.second = extraction.first

\* C25 witness: a reply with a reasoning block before a fenced object has
\* gone through the extractor twice, and both outputs are the object.
C25_Witness ==
    /\ extraction.pc = "twice"
    /\ extraction.wrappers = << "fence_json", "think_lines" >>
    /\ extraction.payload = << "{", "}" >>
    /\ extraction.first = << "{", "}" >>
    /\ extraction.second = extraction.first
    /\ extraction.text # extraction.first

\* A text that starts with a brace or a bracket and holds no whitespace, no
\* backtick and no reasoning tag.
BareJsonText(j) ==
    /\ j # << >>
    /\ j[1] \in {"{", "["}
    /\ \A i \in 1..Len(j) : ~IsSpace(j[i]) /\ j[i] # Backtick
    /\ \A i \in 1..Len(j) : ~MatchAt(j, ThinkOpen, i) /\ ~MatchAt(j, ThinkClose, i)

FenceWrappers == { "fence", "fence_json" }
ThinkWrappers == { "think", "think_lines" }

\* A fence, a reasoning block in front, or both in either order.
StrippedWrappings ==
    { << w >> : w \in FenceWrappers \cup ThinkWrappers }
    \cup { << f, t >> : f \in FenceWrappers, t \in ThinkWrappers }
    \cup { << t, f >> : f \in FenceWrappers, t \in ThinkWrappers }

\* C26: a text j that starts with a brace or bracket and holds no
\* whitespace, backtick or reasoning tag is returned exactly when the reply
\* is j inside a fence (with or without a language tag), j behind a
\* reasoning block (on one line or on several), or both combined.
C26_WrapperStripping ==
    (/\ extraction.pc = "once"
     /\ BareJsonText(extraction.payload)
     /\ extraction.wrappers \in StrippedWrappings)
    => extraction.first = extraction.payload

\* C26 witness: a multi-line reasoning block before a fence with language
\* tag around an object has been extracted to the object.
C26_Witness ==
    /\ extraction.pc = "once"
    /\ extraction.wrappers = << "fence_json", "think_lines" >>
    /\ extraction.payload = << "{", "x", "}" >>
    /\ extraction.first = << "{", "x", "}" >>
    /\ Len(extraction.text) > Len(extraction.first)

\* The indices of character c in s.
IndicesOf(s, c) == { i \in 1..Len(s) : s[i] = c }

\* The span of s from the first `open` to the last `close`, or s itself if
\* that last `close` does not come later.
FirstToLast(s, open, close) ==
    LET opens == IndicesOf(s, open)
        closes == IndicesOf(s, close)
    IN  IF closes # {} /\ Max(closes) > Min(opens)
        THEN SubSeq(s, Min(opens), Max(closes))
        ELSE s

\* C27: a text that, after trimming, reasoning-block removal and fence
\* removal, does not start with a brace or bracket is returned as the span
\* from its first opening brace to its last closing brace if that one comes
\* later; the brackets are used in the same way only if there is no opening
\* brace; without such an ordered pair the text is returned unnarrowed.
C27_ProseNarrowing ==
    LET u == Unwrapped(extraction.text)
    IN  (/\ extraction.pc = "once"
         /\ (u = << >> \/ u[1] \notin {"{", "["}))
        => extraction.first =
              IF IndicesOf(u, "{") # {}
              THEN FirstToLast(u, "{", "}")
              ELSE IF IndicesOf(u, "[") # {}
              THEN FirstToLast(u, "[", "]")
              ELSE u

\* C27 witness: a fenced reply with prose before and after an object has
\* been extracted to the object.
C27_Witness ==
    /\ extraction.pc = "once"
    /\ extraction.wrappers = << "prose", "fence" >>
    /\ extraction.payload = << "{", "x", "}" >>
    /\ Unwrapped(extraction.text) = << "x", " ", "{", "x", "}", " ", "x" >>
    /\ extraction.first = << "{", "x", "}" >>

\* Is s a JSON value followed by text that is not only whitespace?
JsonThenText(s) ==
    \E k \in 1..Len(s) :
        /\ json_loads(SubSeq(s, 1, k))
        /\ \E i \in (k + 1)..Len(s) : ~IsSpace(s[i])

\* C30: a reply that, after trimming, reasoning-block removal and fence
\* removal, starts with a brace or bracket is returned as that text, what
\* follows the JSON value included; step 1 ends on a JSON value followed by
\* text with the error of a reply that is not valid JSON.
C30_NoSearchBehindLeadingBrace ==
    LET u == Unwrapped(extraction.text)
    IN  (/\ extraction.pc \in {"once", "parsed"}
         /\ u # << >>
         /\ u[1] \in {"{", "["})
        => /\ extraction.first = u
           /\ (extraction.pc = "parsed" /\ JsonThenText(u))
              => /\ extraction.outcome = "malformed"
                 /\ extraction.error =
                       "AI response was not valid JSON. The AI may need to be instructed to return JSON format."

\* C30 witness: a fenced reply with an object followed by prose has been
\* extracted with the prose still in it, and step 1 has ended on it as on a
\* reply that is not valid JSON.
C30_Witness ==
    /\ extraction.pc = "parsed"
    /\ extraction.wrappers = << "trailing", "fence_json" >>
    /\ extraction.payload = << "{", "}" >>
    /\ extraction.first = << "{", "}", " ", "x" >>
    /\ extraction.outcome = "malformed"

====
